---- MODULE Spec2Model ----
(***************************************************************************)
(* Model of the data unification and migration subsystem of sf-app:        *)
(*   - DataMigration  (src/utils/debugLogger.ts, class DataMigration)      *)
(*   - UnifiedStorage (src/unnamed/part_000)                               *)
(*   - UnifiedDataManager (src/utils/unifiedDataManager.ts)                *)
(* Three specifications share the module: SpecMigration runs the two pure  *)
(* transforms on bounded legacy bundles, SpecManager runs the in-memory    *)
(* manager, SpecGateway runs the storage gateway against a key-value store *)
(* whose reads and writes may reject.                                      *)
(***************************************************************************)
EXTENDS Integers, Sequences, FiniteSets, TLC

VARIABLES
    \* ---- DataMigration driver ----
    legacy,      \* the legacy bundle handed to migrateToUnifiedStructure
    unified,     \* migrateToUnifiedStructure(legacy)
    back,        \* migrateToOldStructure(unified)
    again,       \* migrateToUnifiedStructure(back)
    mpc,         \* position of the driver: "start" | "forward" | "inverse" | "again"
    \* ---- UnifiedDataManager ----
    data,        \* UnifiedDataManager.data
    lastCall,    \* the last manager call: its name, argument, outcome, and whether an
                 \* index it was given was out of bounds
    nOps,        \* number of manager calls made so far
    \* ---- UnifiedStorage over AsyncStorage ----
    store,       \* the key-value store: marker, unified blob, legacy keys
    gpc,         \* position of the running loadUnifiedData()/saveUnifiedData() call
    glocal,      \* locals of the running call
    gret,        \* what the last completed gateway call returned
    hist,        \* history: how often the forward transform ran, loads issued, ...
    \* ---- overlapping saves through the hook ----
    calls,       \* the saveUnifiedData() calls issued so far, in the order of issue
    \* ---- useUnifiedData: the hook instances of the screens ----
    sessions,    \* per hook instance: its manager's structure and where its load is
    requests,    \* the AsyncStorage.setItem requests of all instances, in order of issue
    lastHook     \* the last call through a hook, when it was an import: who, which, result

migVars == <<legacy, unified, back, again, mpc>>
mgrVars == <<data, lastCall, nOps>>
gwVars  == <<store, gpc, glocal, gret, hist>>
ovVars  == <<calls>>
sesVars == <<sessions, requests, lastHook>>
vars    == <<legacy, unified, back, again, mpc, data, lastCall, nOps,
             store, gpc, glocal, gret, hist, calls, sessions, requests, lastHook>>

(***************************************************************************)
(* Bounds of the model                                                     *)
(***************************************************************************)
MaxOldCollections == 2
MaxOldLevels == 2
MaxOldUnits == 2
MaxListLen == 1
MaxOldUnitFeatures == 1
\* number of manager calls in a run
MaxOps == 2
\* number of loadUnifiedData() and of saveUnifiedData() calls in a run
MaxLoads == 3
\* number of save calls that may be in flight together
MaxOverlap == 3
MaxSaves == 1

(***************************************************************************)
(* Values                                                                  *)
(***************************************************************************)
\* a property that is absent from an object (JavaScript undefined)
Undefined == "<undefined>"
UndefinedNum == -1

\* JavaScript truthiness of a string-or-undefined and of a number-or-undefined
TruthyStr(s) == s # Undefined /\ s # ""
TruthyNum(n) == n # UndefinedNum /\ n # 0

CollIdOf == <<"c1", "c2", "c3", "c4">>
UnitIdOf == <<"u1", "u2", "u3", "u4">>
LevelIdOf == <<"l1", "l2", "l3", "l4">>
CollIds == {CollIdOf[i] : i \in 1..MaxOldCollections}
UnitIds == {UnitIdOf[i] : i \in 1..MaxOldUnits}
LevelIds == {LevelIdOf[i] : i \in 1..MaxOldLevels}
FeatureIds == {"f1", "f2"}
Statuses == {"normal", "recommended", "favorite", "trash"}
\* Date.now() readings
Times == {8, 9}

\* the default favorite reason (the one-character string U+65E0 in the source)
DefaultReason == "wu"

NameOf(id) == "n_" \o id
IdentifierOf(levelId) == IF levelId = "l1" THEN "numeric" ELSE "alpha"

(***************************************************************************)
(* Sequence helpers: Array.prototype.filter / map / some                   *)
(***************************************************************************)
MapSeq(s, F(_)) == [i \in 1..Len(s) |-> F(s[i])]
Range(s) == {s[i] : i \in 1..Len(s)}

\* concatenation of a sequence of sequences
RECURSIVE Concat(_)
Concat(ss) == IF ss = <<>> THEN <<>> ELSE Head(ss) \o Concat(Tail(ss))

\* sequences over S of length at most n
SeqsUpTo(S, n) == UNION {[1..k -> S] : k \in 0..n}

(***************************************************************************)
(* JavaScript objects used as maps keep their keys in insertion order:     *)
(* the root features map is a sequence of features with pairwise distinct  *)
(* ids.  obj[key] = v replaces in place or appends; delete removes.        *)
(***************************************************************************)
ObjHas(obj, key) == \E i \in 1..Len(obj) : obj[i].id = key
ObjSet(obj, v) ==
    IF ObjHas(obj, v.id)
    THEN [i \in 1..Len(obj) |-> IF obj[i].id = v.id THEN v ELSE obj[i]]
    ELSE Append(obj, v)
ObjDelete(obj, key) == SelectSeq(obj, LAMBDA f : f.id # key)
ObjKeys(obj) == {obj[i].id : i \in 1..Len(obj)}

EmptyData == [collections |-> <<>>, features |-> <<>>]

(***************************************************************************)
(* DataMigration.migrateToUnifiedStructure                                 *)
(***************************************************************************)
\* oldFeatures.forEach(f => newData.features[f.id] = {id, name, type, createdAt})
RECURSIVE MigrateFeatures(_, _)
MigrateFeatures(oldFeatures, acc) ==
    IF oldFeatures = <<>> THEN acc
    ELSE MigrateFeatures(Tail(oldFeatures),
            ObjSet(acc, [id |-> Head(oldFeatures).id,
                         name |-> Head(oldFeatures).name,
                         type |-> Head(oldFeatures).type,
                         createdAt |-> Head(oldFeatures).createdAt]))

\* map[collectionId]?.filter(e => e.levelId === levelId) || []
EntriesFor(map, collectionId, levelId) ==
    IF collectionId \in DOMAIN map
    THEN SelectSeq(map[collectionId], LAMBDA e : e.levelId = levelId)
    ELSE <<>>

\* new Set(entries.map(e => e.unit.id))
EntryUnitIds(entries) == {entries[i].unit.id : i \in 1..Len(entries)}

\* new Map(entries.map(e => [e.unit.id, e])).get(unitId): the last entry wins
FavoriteEntry(entries, unitId) ==
    LET hits == {i \in 1..Len(entries) : entries[i].unit.id = unitId}
    IN  entries[CHOOSE i \in hits : \A j \in hits : j <= i]

\* variant: the trashed list is consulted first
StatusOf_TrashFirst(unitId, favoriteUnitIds, recommendedUnitIds, trashedUnitIds) ==
    IF unitId \in trashedUnitIds THEN "trash"
    ELSE IF unitId \in favoriteUnitIds THEN "favorite"
    ELSE IF unitId \in recommendedUnitIds THEN "recommended"
    ELSE "normal"

\* variant: trash is consulted before recommended
StatusOf_TrashOverRecommended(unitId, favoriteUnitIds, recommendedUnitIds, trashedUnitIds) ==
    IF unitId \in favoriteUnitIds THEN "favorite"
    ELSE IF unitId \in trashedUnitIds THEN "trash"
    ELSE IF unitId \in recommendedUnitIds THEN "recommended"
    ELSE "normal"

\* the if / else-if chain that derives the status of a unit
StatusOf(unitId, favoriteUnitIds, recommendedUnitIds, trashedUnitIds) ==
    IF unitId \in favoriteUnitIds THEN "favorite"
    ELSE IF unitId \in recommendedUnitIds THEN "recommended"
    ELSE IF unitId \in trashedUnitIds THEN "trash"
    ELSE "normal"

\* oldUnitFeatures.filter(uf => uf.unitId === id).map(uf => ({featureId, value}))
UnitFeaturesOf(oldUnitFeatures, unitId) ==
    MapSeq(SelectSeq(oldUnitFeatures, LAMBDA uf : uf.unitId = unitId),
           LAMBDA uf : [featureId |-> uf.featureId, value |-> uf.value])

\* the body of oldLevel.units.map(...)
ConvertUnit(oldUnit, recommendedUnits, trashedUnits, favoriteUnits, oldUnitFeatures) ==
    LET status == StatusOf(oldUnit.id, EntryUnitIds(favoriteUnits),
                           EntryUnitIds(recommendedUnits), EntryUnitIds(trashedUnits))
        favoriteReason ==
            IF status = "favorite" THEN FavoriteEntry(favoriteUnits, oldUnit.id).reason
            ELSE Undefined
        favoriteCreatedAt ==
            IF status = "favorite" THEN FavoriteEntry(favoriteUnits, oldUnit.id).createdAt
            ELSE UndefinedNum
    IN  [id |-> oldUnit.id,
         name |-> oldUnit.name,
         status |-> status,
         features |-> UnitFeaturesOf(oldUnitFeatures, oldUnit.id),
         \* ...(favoriteReason && { favoriteReason })
         favoriteReason |-> IF TruthyStr(favoriteReason) THEN favoriteReason ELSE Undefined,
         \* ...(favoriteCreatedAt && { favoriteCreatedAt })
         favoriteCreatedAt |-> IF TruthyNum(favoriteCreatedAt) THEN favoriteCreatedAt
                               ELSE UndefinedNum]

\* variant: a unit that is in the trashed list of its level is left out
ConvertLevel_SkipsTrashed(L, collectionId, oldLevel) ==
    LET recommendedUnits == EntriesFor(L.recommendedUnits, collectionId, oldLevel.id)
        trashedUnits == EntriesFor(L.trashedUnits, collectionId, oldLevel.id)
        favoriteUnits == EntriesFor(L.favoriteUnits, collectionId, oldLevel.id)
    IN  [id |-> oldLevel.id,
         name |-> oldLevel.name,
         identifier |-> oldLevel.identifier,
         units |-> MapSeq(SelectSeq(oldLevel.units,
                                    LAMBDA u : u.id \notin EntryUnitIds(trashedUnits)),
                     LAMBDA u : ConvertUnit(u, recommendedUnits, trashedUnits,
                                            favoriteUnits, L.unitFeatures)),
         createdAt |-> oldLevel.createdAt]

\* the body of collectionOldLevels.forEach(...)
ConvertLevel(L, collectionId, oldLevel) ==
    LET recommendedUnits == EntriesFor(L.recommendedUnits, collectionId, oldLevel.id)
        trashedUnits == EntriesFor(L.trashedUnits, collectionId, oldLevel.id)
        favoriteUnits == EntriesFor(L.favoriteUnits, collectionId, oldLevel.id)
    IN  [id |-> oldLevel.id,
         name |-> oldLevel.name,
         identifier |-> oldLevel.identifier,
         units |-> MapSeq(oldLevel.units,
                     LAMBDA u : ConvertUnit(u, recommendedUnits, trashedUnits,
                                            favoriteUnits, L.unitFeatures)),
         createdAt |-> oldLevel.createdAt]

\* the body of oldCollections.forEach(...)
ConvertCollection(L, oldCollection) ==
    [id |-> oldCollection.id,
     name |-> oldCollection.name,
     createdAt |-> oldCollection.createdAt,
     levels |-> MapSeq(SelectSeq(L.levels, LAMBDA lv : lv.collectionId = oldCollection.id),
                       LAMBDA lv : ConvertLevel(L, oldCollection.id, lv))]

migrateToUnifiedStructure(L) ==
    [collections |-> MapSeq(L.collections, LAMBDA c : ConvertCollection(L, c)),
     features |-> MigrateFeatures(L.features, <<>>)]

(***************************************************************************)
(* DataMigration.migrateToOldStructure                                     *)
(***************************************************************************)
OldUnitOf(unit) == [id |-> unit.id, name |-> unit.name]

\* variant: every unit of the level is pushed, whatever its status
StatusEntries_AllUnits(collection, level, status, now) ==
    MapSeq(level.units,
           LAMBDA u : [unit |-> OldUnitOf(u), levelName |-> level.name,
                       levelId |-> level.id, collectionId |-> collection.id])

\* the entries pushed for the units of one level that carry the given status
StatusEntries(collection, level, status, now) ==
    MapSeq(SelectSeq(level.units, LAMBDA u : u.status = status),
           LAMBDA u :
             IF status = "favorite"
             THEN [unit |-> OldUnitOf(u), levelName |-> level.name,
                   levelId |-> level.id, collectionId |-> collection.id,
                   \* reason: unit.favoriteReason || DefaultReason
                   reason |-> IF TruthyStr(u.favoriteReason) THEN u.favoriteReason
                              ELSE DefaultReason,
                   \* createdAt: unit.favoriteCreatedAt || Date.now()
                   createdAt |-> IF TruthyNum(u.favoriteCreatedAt) THEN u.favoriteCreatedAt
                                 ELSE now]
             ELSE [unit |-> OldUnitOf(u), levelName |-> level.name,
                   levelId |-> level.id, collectionId |-> collection.id])

\* map[collection.id] = [] followed by the pushes of that collection: when two
\* collections share an id the later one restarts the list
StatusMap(newData, status, now) ==
    LET cs == newData.collections
        ids == {cs[i].id : i \in 1..Len(cs)}
        lastOf(id) == CHOOSE i \in 1..Len(cs) :
                        /\ cs[i].id = id
                        /\ \A j \in 1..Len(cs) : cs[j].id = id => j <= i
    IN  [id \in ids |->
            Concat(MapSeq(cs[lastOf(id)].levels,
                          LAMBDA lv : StatusEntries(cs[lastOf(id)], lv, status, now)))]

OldLevelOf(collection, level) ==
    [id |-> level.id,
     collectionId |-> collection.id,
     name |-> level.name,
     identifier |-> level.identifier,
     units |-> MapSeq(level.units, OldUnitOf),
     createdAt |-> level.createdAt]

OldUnitFeaturesOf(unit) ==
    MapSeq(unit.features,
           LAMBDA uf : [unitId |-> unit.id, featureId |-> uf.featureId, value |-> uf.value])

migrateToOldStructure(newData, now) ==
    [collections |-> MapSeq(newData.collections,
                        LAMBDA c : [id |-> c.id, name |-> c.name, createdAt |-> c.createdAt]),
     levels |-> Concat(MapSeq(newData.collections,
                        LAMBDA c : MapSeq(c.levels, LAMBDA lv : OldLevelOf(c, lv)))),
     features |-> MapSeq(newData.features,
                        LAMBDA f : [id |-> f.id, collectionId |-> "global",
                                    name |-> f.name, type |-> f.type,
                                    createdAt |-> f.createdAt]),
     unitFeatures |-> Concat(MapSeq(newData.collections,
                        LAMBDA c : Concat(MapSeq(c.levels,
                          LAMBDA lv : Concat(MapSeq(lv.units, OldUnitFeaturesOf)))))),
     recommendedUnits |-> StatusMap(newData, "recommended", now),
     trashedUnits |-> StatusMap(newData, "trash", now),
     favoriteUnits |-> StatusMap(newData, "favorite", now)]

(***************************************************************************)
(* Legacy bundles the transforms are run on                                *)
(***************************************************************************)
OldCollection(id) == [id |-> id, name |-> NameOf(id), createdAt |-> 1]
OldUnit(id) == [id |-> id, name |-> NameOf(id)]
OldFeature(id) == [id |-> id, collectionId |-> "global", name |-> NameOf(id),
                   type |-> "numeric", createdAt |-> 1]

\* the first n collections; ids are pairwise distinct
OldCollectionSeqs == {[i \in 1..n |-> OldCollection(CollIdOf[i])] : n \in 0..MaxOldCollections}

\* a level holds the first k units, so unit ids are unique within a level and
\* the same unit id may occur in two levels
OldLevelCands ==
    {[id |-> lid, collectionId |-> cid, name |-> NameOf(lid),
      identifier |-> IdentifierOf(lid),
      units |-> [j \in 1..k |-> OldUnit(UnitIdOf[j])],
      createdAt |-> 1] : lid \in LevelIds, cid \in CollIds, k \in 0..MaxOldUnits}

\* the i-th level has the i-th level id
OldLevelSeqs ==
    UNION {{ls \in [1..n -> OldLevelCands] : \A i \in 1..n : ls[i].id = LevelIdOf[i]}
           : n \in 0..MaxOldLevels}

OldFeatureSeqs == {<<>>, <<OldFeature("f1")>>}

OldUnitFeatureSeqs ==
    SeqsUpTo({[unitId |-> "u1", featureId |-> f, value |-> "7"] : f \in FeatureIds},
             MaxOldUnitFeatures)

PlainEntry(uid, lid) ==
    [unit |-> OldUnit(uid), levelName |-> NameOf(lid), levelId |-> lid, collectionId |-> "c1"]
FavEntry(uid, lid, reason, createdAt) ==
    [unit |-> OldUnit(uid), levelName |-> NameOf(lid), levelId |-> lid, collectionId |-> "c1",
     reason |-> reason, createdAt |-> createdAt]

\* a per-collection mapping: no key at all, or the key "c1" with a short list
MapsOver(entries) ==
    {<<>>} \cup {[c \in {"c1"} |-> es] : es \in SeqsUpTo(entries, MaxListLen)}

PlainMaps == MapsOver({PlainEntry("u1", lid) : lid \in {"l1", "l2"}})
FavMaps == MapsOver({FavEntry("u1", "l1", "", 0), FavEntry("u1", "l1", "r", 5)})

LegacyBundles ==
    [collections : OldCollectionSeqs,
     levels : OldLevelSeqs,
     features : OldFeatureSeqs,
     unitFeatures : OldUnitFeatureSeqs,
     recommendedUnits : PlainMaps,
     trashedUnits : PlainMaps,
     favoriteUnits : FavMaps]

EmptyBundle ==
    [collections |-> <<>>, levels |-> <<>>, features |-> <<>>, unitFeatures |-> <<>>,
     recommendedUnits |-> <<>>, trashedUnits |-> <<>>, favoriteUnits |-> <<>>]

(***************************************************************************)
(* SpecMigration: forward, inverse, forward again                          *)
(***************************************************************************)
NoCall == [op |-> "none", arg |-> "none", oob |-> FALSE, hit |-> FALSE, ret |-> "void"]

MgrIdle ==
    /\ data = EmptyData
    /\ lastCall = NoCall
    /\ nOps = 0

\* AsyncStorage.getItem of a key that is not set
NullItem == [kind |-> "null"]

NoLegacyKeys ==
    [collections |-> NullItem, levels |-> NullItem, features |-> NullItem,
     unit_features |-> NullItem, recommended_units |-> NullItem,
     trashed_units |-> NullItem, favorite_units |-> NullItem]

NoLocals == [call |-> "none", readFailed |-> FALSE, value |-> EmptyData]
\* path names the return statement the call ended on
\* hook is how the hook's updateData() ended that awaited the call
NoReturn == [call |-> "none", outcome |-> "none", value |-> EmptyData, path |-> "none",
             hook |-> "none"]
\* lastError is what the catch block of migrate() last caught
NoHistory == [forwardRuns |-> 0, loads |-> 0, loadsDone |-> 0, saves |-> 0,
              blobWritten |-> FALSE, lastWriter |-> "none", lastError |-> "none"]

OvIdle == calls = <<>>

\* no screen is mounted
SessionIds == {"A", "B"}
Unmounted == [load |-> "unmounted", data |-> EmptyData, loaded |-> [null |-> TRUE]]
NoHook == [op |-> "none"]
SesIdle ==
    /\ sessions = [s \in SessionIds |-> Unmounted]
    /\ requests = <<>>
    /\ lastHook = NoHook

GwIdle ==
    /\ store = [marker |-> NullItem, unified |-> NullItem, legacy |-> NoLegacyKeys]
    /\ gpc = "idle"
    /\ glocal = NoLocals
    /\ gret = NoReturn
    /\ hist = NoHistory

InitMigration ==
    /\ legacy \in LegacyBundles
    /\ unified = EmptyData
    /\ back = EmptyBundle
    /\ again = EmptyData
    /\ mpc = "start"
    /\ MgrIdle
    /\ GwIdle
    /\ OvIdle
    /\ SesIdle

Forward ==
    /\ mpc = "start"
    /\ unified' = migrateToUnifiedStructure(legacy)
    /\ mpc' = "forward"
    /\ UNCHANGED <<legacy, back, again, mgrVars, gwVars, ovVars, sesVars>>

Inverse ==
    /\ mpc = "forward"
    /\ \E now \in Times : back' = migrateToOldStructure(unified, now)
    /\ mpc' = "inverse"
    /\ UNCHANGED <<legacy, unified, again, mgrVars, gwVars, ovVars, sesVars>>

ForwardAgain ==
    /\ mpc = "inverse"
    /\ again' = migrateToUnifiedStructure(back)
    /\ mpc' = "again"
    /\ UNCHANGED <<legacy, unified, back, mgrVars, gwVars, ovVars, sesVars>>

NextMigration == Forward \/ Inverse \/ ForwardAgain

SpecMigration == InitMigration /\ [][NextMigration]_vars

(***************************************************************************)
(* Views used by the properties of the transforms                          *)
(***************************************************************************)
\* what the round trip is required to preserve: per level its identifier, per
\* unit its name, status, favorite reason and feature values
UnitView(u) == [name |-> u.name, status |-> u.status,
                favoriteReason |-> u.favoriteReason, features |-> u.features]
LevelView(lv) == [identifier |-> lv.identifier, units |-> MapSeq(lv.units, UnitView)]
StructureView(d) ==
    MapSeq(d.collections, LAMBDA c : MapSeq(c.levels, LevelView))

\* membership of a unit in a legacy list of its collection and level, read
\* directly off the legacy mapping
InLegacyList(map, cid, lid, uid) ==
    /\ cid \in DOMAIN map
    /\ \E i \in 1..Len(map[cid]) : map[cid][i].levelId = lid /\ map[cid][i].unit.id = uid

\* the index paths <<collection, level, unit>> of all units of a structure
UnitPaths(d) ==
    UNION {UNION {{<<i, j, k>> : k \in 1..Len(d.collections[i].levels[j].units)}
                  : j \in 1..Len(d.collections[i].levels)}
           : i \in 1..Len(d.collections)}
CollAt(d, p) == d.collections[p[1]]
LevelAt(d, p) == d.collections[p[1]].levels[p[2]]
UnitAt(d, p) == d.collections[p[1]].levels[p[2]].units[p[3]]

\* C1: once forward, inverse and forward again have run, the second unified
\* structure equals the first in every unit's status, favorite reason,
\* feature-value list and name and in every level's identifier.
C1_RoundTrip == mpc = "again" => StructureView(again) = StructureView(unified)

\* the status the priority order favorite > recommended > trash > normal gives
\* a unit, from its memberships in the three legacy lists
PriorityStatus(inFavorite, inRecommended, inTrashed) ==
    CASE inFavorite -> "favorite"
      [] ~inFavorite /\ inRecommended -> "recommended"
      [] ~inFavorite /\ ~inRecommended /\ inTrashed -> "trash"
      [] OTHER -> "normal"

\* C9: a legacy unit that is both in the favorite list and in the trashed list
\* of its collection and level comes out of the forward transform as favorite.
C9_FavoriteOverTrash ==
    mpc # "start" =>
        \A p \in UnitPaths(unified) :
            (/\ InLegacyList(legacy.favoriteUnits, CollAt(unified, p).id,
                             LevelAt(unified, p).id, UnitAt(unified, p).id)
             /\ InLegacyList(legacy.trashedUnits, CollAt(unified, p).id,
                             LevelAt(unified, p).id, UnitAt(unified, p).id))
            => UnitAt(unified, p).status = "favorite"

\* a migrated unit that was in the favorite and in the trashed list
C9_Witness ==
    /\ mpc = "forward"
    /\ \E p \in UnitPaths(unified) :
        /\ InLegacyList(legacy.favoriteUnits, CollAt(unified, p).id,
                        LevelAt(unified, p).id, UnitAt(unified, p).id)
        /\ InLegacyList(legacy.trashedUnits, CollAt(unified, p).id,
                        LevelAt(unified, p).id, UnitAt(unified, p).id)
        /\ ~InLegacyList(legacy.recommendedUnits, CollAt(unified, p).id,
                         LevelAt(unified, p).id, UnitAt(unified, p).id)

\* C10: for every combination of memberships in the favorite, recommended and
\* trashed lists, the migrated status is the highest-priority list the unit is
\* in (favorite > recommended > trash), and normal when it is in none.
C10_PriorityOrder ==
    mpc # "start" =>
        \A p \in UnitPaths(unified) :
            UnitAt(unified, p).status =
                PriorityStatus(
                    InLegacyList(legacy.favoriteUnits, CollAt(unified, p).id,
                                 LevelAt(unified, p).id, UnitAt(unified, p).id),
                    InLegacyList(legacy.recommendedUnits, CollAt(unified, p).id,
                                 LevelAt(unified, p).id, UnitAt(unified, p).id),
                    InLegacyList(legacy.trashedUnits, CollAt(unified, p).id,
                                 LevelAt(unified, p).id, UnitAt(unified, p).id))

\* a migrated unit that was in the recommended and in the trashed list only
C10_Witness ==
    /\ mpc = "forward"
    /\ \E p \in UnitPaths(unified) :
        /\ InLegacyList(legacy.recommendedUnits, CollAt(unified, p).id,
                        LevelAt(unified, p).id, UnitAt(unified, p).id)
        /\ InLegacyList(legacy.trashedUnits, CollAt(unified, p).id,
                        LevelAt(unified, p).id, UnitAt(unified, p).id)
        /\ ~InLegacyList(legacy.favoriteUnits, CollAt(unified, p).id,
                         LevelAt(unified, p).id, UnitAt(unified, p).id)
        /\ UnitAt(unified, p).status = "recommended"

\* the number of entries of a per-collection mapping for one unit of one
\* level of one collection
EntryCount(map, cid, lid, uid) ==
    IF cid \in DOMAIN map
    THEN Cardinality({i \in 1..Len(map[cid]) :
                        map[cid][i].levelId = lid /\ map[cid][i].unit.id = uid})
    ELSE 0

\* the number of entries of a per-collection mapping, all keys together
TotalEntries(map) ==
    Cardinality(UNION {{<<cid, i>> : i \in 1..Len(map[cid])} : cid \in DOMAIN map})

\* the mapping of the legacy bundle that belongs to a status
LegacyMapOf(bundle, status) ==
    IF status = "recommended" THEN bundle.recommendedUnits
    ELSE IF status = "trash" THEN bundle.trashedUnits
    ELSE bundle.favoriteUnits

\* the (unit, feature value) pairs of a structure
FeatureValuePairs(d) ==
    UNION {{<<p, k>> : k \in 1..Len(UnitAt(d, p).features)} : p \in UnitPaths(d)}

\* C20: the inverse transform puts a unit of status recommended, trash or
\* favorite into exactly one entry of the matching mapping, under its
\* collection id and with its level id, and into no other mapping; a normal
\* unit into none; it emits one Feature row with collectionId "global" per
\* root feature and one UnitFeature row per (unit, feature value) pair.
C20_InversePlacement ==
    mpc \in {"inverse", "again"} =>
        /\ \A p \in UnitPaths(unified) :
             \A status \in {"recommended", "trash", "favorite"} :
                EntryCount(LegacyMapOf(back, status), CollAt(unified, p).id,
                           LevelAt(unified, p).id, UnitAt(unified, p).id)
                    = IF UnitAt(unified, p).status = status THEN 1 ELSE 0
        /\ \A status \in {"recommended", "trash", "favorite"} :
             TotalEntries(LegacyMapOf(back, status))
                = Cardinality({p \in UnitPaths(unified) : UnitAt(unified, p).status = status})
        /\ Len(back.features) = Len(unified.features)
        /\ \A i \in 1..Len(back.features) :
             /\ back.features[i].id = unified.features[i].id
             /\ back.features[i].collectionId = "global"
        /\ Len(back.unitFeatures) = Cardinality(FeatureValuePairs(unified))
        /\ \A pk \in FeatureValuePairs(unified) :
             \E i \in 1..Len(back.unitFeatures) :
                /\ back.unitFeatures[i].unitId = UnitAt(unified, pk[1]).id
                /\ back.unitFeatures[i].featureId = UnitAt(unified, pk[1]).features[pk[2]].featureId
                /\ back.unitFeatures[i].value = UnitAt(unified, pk[1]).features[pk[2]].value

\* the inverse has run on a structure with a favorite unit, a normal unit and
\* a unit that carries a feature value
C20_Witness ==
    /\ mpc = "inverse"
    /\ \E p \in UnitPaths(unified) : UnitAt(unified, p).status = "favorite"
    /\ \E p \in UnitPaths(unified) : UnitAt(unified, p).status = "normal"
    /\ back.unitFeatures # <<>>
    /\ back.features # <<>>

(***************************************************************************)
(* UnifiedDataManager: the synchronous methods as functions of the         *)
(* structure.  Indices are JavaScript indices (0-based).                   *)
(***************************************************************************)
\* what an accessor returns when the index is out of bounds
NoObject == [undefined |-> TRUE]

Min(a, b) == IF a < b THEN a ELSE b
Max(a, b) == IF a > b THEN a ELSE b

\* Array.prototype.splice(start, 1): a negative start counts from the end
SpliceOne(s, start) ==
    LET n == Len(s)
        k == IF start < 0 THEN Max(n + start, 0) ELSE Min(start, n)
    IN  [i \in 1..(IF k < n THEN n - 1 ELSE n) |-> IF i <= k THEN s[i] ELSE s[i + 1]]

\* array[index] = v for an index inside the array
SetAt(s, index, v) == [s EXCEPT ![index + 1] = v]

addCollection(d, collection) == [d EXCEPT !.collections = Append(@, collection)]

\* variant: the lower bound of the index is not tested
removeCollection_NoLowerBound(d, collectionIndex) ==
    IF collectionIndex < Len(d.collections)
    THEN [d EXCEPT !.collections = SpliceOne(@, collectionIndex)]
    ELSE d

removeCollection(d, collectionIndex) ==
    IF collectionIndex >= 0 /\ collectionIndex < Len(d.collections)
    THEN [d EXCEPT !.collections = SpliceOne(@, collectionIndex)]
    ELSE d

updateCollection(d, collectionIndex, collection) ==
    IF collectionIndex >= 0 /\ collectionIndex < Len(d.collections)
    THEN [d EXCEPT !.collections = SetAt(@, collectionIndex, collection)]
    ELSE d

getCollection(d, collectionIndex) ==
    IF collectionIndex >= 0 /\ collectionIndex < Len(d.collections)
    THEN d.collections[collectionIndex + 1]
    ELSE NoObject

addLevel(d, collectionIndex, level) ==
    LET collection == getCollection(d, collectionIndex)
    IN  IF collection # NoObject
        THEN [d EXCEPT !.collections[collectionIndex + 1].levels = Append(@, level)]
        ELSE d

removeLevel(d, collectionIndex, levelIndex) ==
    LET collection == getCollection(d, collectionIndex)
    IN  IF collection # NoObject /\ levelIndex >= 0 /\ levelIndex < Len(collection.levels)
        THEN [d EXCEPT !.collections[collectionIndex + 1].levels = SpliceOne(@, levelIndex)]
        ELSE d

updateLevel(d, collectionIndex, levelIndex, level) ==
    LET collection == getCollection(d, collectionIndex)
    IN  IF collection # NoObject /\ levelIndex >= 0 /\ levelIndex < Len(collection.levels)
        THEN [d EXCEPT !.collections[collectionIndex + 1].levels = SetAt(@, levelIndex, level)]
        ELSE d

getLevel(d, collectionIndex, levelIndex) ==
    LET collection == getCollection(d, collectionIndex)
    IN  IF collection # NoObject /\ levelIndex >= 0 /\ levelIndex < Len(collection.levels)
        THEN collection.levels[levelIndex + 1]
        ELSE NoObject

addUnit(d, collectionIndex, levelIndex, unit) ==
    LET level == getLevel(d, collectionIndex, levelIndex)
    IN  IF level # NoObject
        THEN [d EXCEPT !.collections[collectionIndex + 1].levels[levelIndex + 1].units =
                            Append(@, unit)]
        ELSE d

removeUnit(d, collectionIndex, levelIndex, unitIndex) ==
    LET level == getLevel(d, collectionIndex, levelIndex)
    IN  IF level # NoObject /\ unitIndex >= 0 /\ unitIndex < Len(level.units)
        THEN [d EXCEPT !.collections[collectionIndex + 1].levels[levelIndex + 1].units =
                            SpliceOne(@, unitIndex)]
        ELSE d

updateUnit(d, collectionIndex, levelIndex, unitIndex, unit) ==
    LET level == getLevel(d, collectionIndex, levelIndex)
    IN  IF level # NoObject /\ unitIndex >= 0 /\ unitIndex < Len(level.units)
        THEN [d EXCEPT !.collections[collectionIndex + 1].levels[levelIndex + 1].units =
                            SetAt(@, unitIndex, unit)]
        ELSE d

\* variant: the favorite fields are left on the unit when the status is not favorite
WithStatus_KeepsFields(unit, status, favoriteReason, now) ==
    IF status = "favorite"
    THEN [unit EXCEPT !.status = status,
                      !.favoriteReason = IF TruthyStr(favoriteReason) THEN favoriteReason
                                         ELSE DefaultReason,
                      !.favoriteCreatedAt = now]
    ELSE [unit EXCEPT !.status = status]

\* the assignments updateUnitStatus makes to the unit it found
WithStatus(unit, status, favoriteReason, now) ==
    IF status = "favorite"
    THEN [unit EXCEPT !.status = status,
                      !.favoriteReason = IF TruthyStr(favoriteReason) THEN favoriteReason
                                         ELSE DefaultReason,
                      !.favoriteCreatedAt = now]
    ELSE [unit EXCEPT !.status = status,
                      !.favoriteReason = Undefined,
                      !.favoriteCreatedAt = UndefinedNum]

updateUnitStatus(d, collectionIndex, levelIndex, unitIndex, status, favoriteReason, now) ==
    LET level == getLevel(d, collectionIndex, levelIndex)
    IN  IF level # NoObject /\ unitIndex >= 0 /\ unitIndex < Len(level.units)
        THEN [d EXCEPT !.collections[collectionIndex + 1].levels[levelIndex + 1].units =
                SetAt(@, unitIndex,
                      WithStatus(level.units[unitIndex + 1], status, favoriteReason, now))]
        ELSE d

addFeature(d, feature) == [d EXCEPT !.features = ObjSet(@, feature)]

updateFeature(d, featureId, feature) ==
    IF ObjHas(d.features, featureId)
    THEN [d EXCEPT !.features = ObjSet(@, feature)]
    ELSE d

\* unit.features = unit.features.filter(f => f.featureId !== featureId)
StripFeature(unit, featureId) ==
    [unit EXCEPT !.features = SelectSeq(@, LAMBDA f : f.featureId # featureId)]

\* variant: the feature entry is deleted, the units keep their references
removeFeature_NoCascade(d, featureId) ==
    [d EXCEPT !.features = ObjDelete(@, featureId)]

removeFeature(d, featureId) ==
    [collections |->
        MapSeq(d.collections, LAMBDA c :
            [c EXCEPT !.levels = MapSeq(@, LAMBDA lv :
                [lv EXCEPT !.units = MapSeq(@, LAMBDA u : StripFeature(u, featureId))])]),
     features |-> ObjDelete(d.features, featureId)]

(***************************************************************************)
(* JSON text.  A string either does not parse or is the text of a value;   *)
(* a value is null, a number, or an object whose two relevant properties   *)
(* are described by their JavaScript type.                                 *)
(***************************************************************************)
JsUndefined == [type |-> "undefined"]
JsNull == [type |-> "null"]
JsNumber == [type |-> "number"]
JsString == [type |-> "string"]
JsArray(items) == [type |-> "array", items |-> items]
JsObject(entries) == [type |-> "object", entries |-> entries]
JsRoot(collections, features) ==
    [type |-> "object", collections |-> collections, features |-> features]

Garbage == [kind |-> "garbage"]
JsonText(value) == [kind |-> "json", value |-> value]

\* variant: the optional properties of a unit are never written
StringifyUnit_NoOptional(u) ==
    [k \in {"id", "name", "status", "features"} |-> u[k]]

\* JSON.stringify of a unit: a property whose value is undefined is left out
\* of the text
StringifyUnit(u) ==
    [k \in {"id", "name", "status", "features"}
            \cup (IF u.favoriteReason # Undefined THEN {"favoriteReason"} ELSE {})
            \cup (IF u.favoriteCreatedAt # UndefinedNum THEN {"favoriteCreatedAt"} ELSE {})
        |-> u[k]]

\* JSON.parse of the text of a unit: a property that is not in the text is
\* undefined on the object
ParseUnit(j) ==
    [id |-> j.id, name |-> j.name, status |-> j.status, features |-> j.features,
     favoriteReason |->
        IF "favoriteReason" \in DOMAIN j THEN j.favoriteReason ELSE Undefined,
     favoriteCreatedAt |->
        IF "favoriteCreatedAt" \in DOMAIN j THEN j.favoriteCreatedAt ELSE UndefinedNum]

StringifyLevel(lv) ==
    [lv EXCEPT !.units = [k \in 1..Len(lv.units) |-> StringifyUnit(lv.units[k])]]
StringifyCollection(c) ==
    [c EXCEPT !.levels = [j \in 1..Len(c.levels) |-> StringifyLevel(c.levels[j])]]
StringifyCollections(collections) ==
    [i \in 1..Len(collections) |-> StringifyCollection(collections[i])]

\* JSON.parse takes an element as it is written: an element that is null or
\* an object without the property stays that
ParseLevel(lv) ==
    IF "units" \in DOMAIN lv
    THEN [lv EXCEPT !.units = [k \in 1..Len(lv.units) |-> ParseUnit(lv.units[k])]]
    ELSE lv
ParseCollection(c) ==
    IF "levels" \in DOMAIN c
    THEN [c EXCEPT !.levels = [j \in 1..Len(c.levels) |-> ParseLevel(c.levels[j])]]
    ELSE c
ParseCollections(items) ==
    [i \in 1..Len(items) |-> ParseCollection(items[i])]

\* JSON.stringify of a DataStructure
Stringify(d) ==
    JsonText(JsRoot(JsArray(StringifyCollections(d.collections)), JsObject(d.features)))

\* exportToJSON(): JSON.stringify(this.data, null, 2); the indentation does
\* not change the value the text stands for
exportToJSON(d) == Stringify(d)

\* JSON.parse: throws on text that is not JSON
JsonParse(text) ==
    IF text.kind = "json" THEN [ok |-> TRUE, value |-> text.value]
    ELSE [ok |-> FALSE, value |-> JsUndefined]

\* value.name for a property of the root; undefined for a non-object
Prop(value, name) ==
    IF value.type = "object" THEN value[name] ELSE JsUndefined

\* data && Array.isArray(data.collections) && typeof data.features === "object"
\*      && data.features !== null        (typeof of an array is "object")
validateDataStructure(value) ==
    /\ value.type # "null"
    /\ Prop(value, "collections").type = "array"
    /\ Prop(value, "features").type \in {"object", "array"}

\* the DataStructure a validated value is used as
AsData(value) ==
    [collections |-> ParseCollections(value.collections.items),
     features |-> IF value.features.type = "object" THEN value.features.entries ELSE <<>>]

\* variant: the parsed value is assigned before it is validated
importFromJSON_AssignFirst(d, jsonString) ==
    LET parsed == JsonParse(jsonString)
    IN  IF ~parsed.ok THEN [data |-> d, ret |-> "false"]
        ELSE IF validateDataStructure(parsed.value)
        THEN [data |-> AsData(parsed.value), ret |-> "true"]
        ELSE [data |-> EmptyData, ret |-> "false"]

importFromJSON(d, jsonString) ==
    LET parsed == JsonParse(jsonString)
    IN  IF ~parsed.ok THEN [data |-> d, ret |-> "false"]
        ELSE IF validateDataStructure(parsed.value)
        THEN [data |-> AsData(parsed.value), ret |-> "true"]
        ELSE [data |-> d, ret |-> "false"]

(***************************************************************************)
(* findUnit: the scan over collections, levels and units                   *)
(***************************************************************************)
Null == [null |-> TRUE]
\* a TypeError: a property of null or undefined was read
Thrown == [thrown |-> "TypeError"]
\* value.name throws or gives undefined: the value is null, or an object
\* that has no such property
Lacks(value, name) == value = JsNull \/ name \notin DOMAIN value

\* variant: the index of the last unit with the id
FindIndex_Last(units, unitId) ==
    LET hits == {k \in 1..Len(units) : units[k].id = unitId}
    IN  IF hits = {} THEN -1 ELSE (CHOOSE k \in hits : \A h \in hits : h <= k) - 1

\* level.units.findIndex((u) => u.id === unitId)
FindIndex(units, unitId) ==
    LET hits == {k \in 1..Len(units) : units[k].id = unitId}
    IN  IF hits = {} THEN -1 ELSE (CHOOSE k \in hits : \A h \in hits : k <= h) - 1

\* the inner for loop, from levelIndex on
RECURSIVE FindInLevels(_, _, _, _)
FindInLevels(collection, collectionIndex, levelIndex, unitId) ==
    \* collection.levels.length
    IF Lacks(collection, "levels") THEN Thrown
    ELSE IF ~(levelIndex < Len(collection.levels)) THEN Null
    ELSE LET level == collection.levels[levelIndex + 1] IN
         \* level.units.findIndex
         IF Lacks(level, "units") THEN Thrown
         ELSE LET unitIndex == FindIndex(level.units, unitId) IN
              IF unitIndex # -1
              THEN [collectionIndex |-> collectionIndex, levelIndex |-> levelIndex,
                    unitIndex |-> unitIndex, unit |-> level.units[unitIndex + 1]]
              ELSE FindInLevels(collection, collectionIndex, levelIndex + 1, unitId)

\* the outer for loop, from collectionIndex on
RECURSIVE FindInCollections(_, _, _)
FindInCollections(d, collectionIndex, unitId) ==
    IF ~(collectionIndex < Len(d.collections)) THEN Null
    ELSE LET found == FindInLevels(d.collections[collectionIndex + 1], collectionIndex,
                                   0, unitId)
         IN  IF found # Null THEN found
             ELSE FindInCollections(d, collectionIndex + 1, unitId)

findUnit(d, unitId) == FindInCollections(d, 0, unitId)

(***************************************************************************)
(* Clipboard: copyToClipboard and pasteFromClipboard.  Clipboard.getString *)
(* resolves with a string, possibly the empty one, or rejects;             *)
(* Clipboard.setString returns or throws.                                  *)
(***************************************************************************)
EmptyText == [kind |-> "empty"]
ClipboardRead(resolved, text) == [resolved |-> resolved, text |-> text]

\* variant: a rejected read is not caught
pasteFromClipboard_NoCatch(d, read) ==
    IF ~read.resolved THEN [data |-> d, ret |-> "threw"]
    ELSE IF read.text.kind # "empty" THEN importFromJSON(d, read.text)
    ELSE [data |-> d, ret |-> "false"]

\* the promise of pasteFromClipboard: the structure and the value it resolves
\* with, given how the read of the clipboard ended
pasteFromClipboard(d, read) ==
    IF ~read.resolved THEN [data |-> d, ret |-> "false"]
    ELSE IF read.text.kind # "empty" THEN importFromJSON(d, read.text)
    ELSE [data |-> d, ret |-> "false"]

\* copyToClipboard: the value returned and the string handed to the clipboard
copyToClipboard(d, setStringThrows) ==
    [data |-> d,
     ret |-> IF setStringThrows THEN "false" ELSE "true",
     text |-> exportToJSON(d)]

(***************************************************************************)
(* DataAdapter: legacy-shaped read views of the manager's structure.  Each *)
(* query reads this.dataManager.getData() when it is called.               *)
(***************************************************************************)
getData(d) == d

\* Array.prototype.find on the collections: the first one with the id
FindCollection(d, collectionId) ==
    IF \E i \in 1..Len(d.collections) : d.collections[i].id = collectionId
    THEN d.collections[CHOOSE i \in 1..Len(d.collections) :
            /\ d.collections[i].id = collectionId
            /\ \A j \in 1..(i - 1) : d.collections[j].id # collectionId]
    ELSE NoObject

getCollections(d) ==
    [i \in 1..Len(d.collections) |->
        [id |-> d.collections[i].id, name |-> d.collections[i].name,
         createdAt |-> d.collections[i].createdAt]]

getLevelsByCollectionId(d, collectionId) ==
    LET collection == FindCollection(d, collectionId) IN
    IF collection = NoObject THEN <<>>
    ELSE [i \in 1..Len(collection.levels) |->
            LET level == collection.levels[i] IN
            [id |-> level.id, collectionId |-> collectionId, name |-> level.name,
             identifier |-> level.identifier,
             units |-> [k \in 1..Len(level.units) |->
                          [id |-> level.units[k].id, name |-> level.units[k].name]],
             createdAt |-> level.createdAt]]

getFeaturesByCollectionId(d, collectionId) ==
    [i \in 1..Len(d.features) |->
        [id |-> d.features[i].id, collectionId |-> "global", name |-> d.features[i].name,
         type |-> d.features[i].type, createdAt |-> d.features[i].createdAt]]

\* the entry pushed for one unit of one level
StatusEntry(unit, level, collectionId) ==
    [unit |-> [id |-> unit.id, name |-> unit.name], levelName |-> level.name,
     levelId |-> level.id, collectionId |-> collectionId]

getRecommendedUnits_NotNormal(d, collectionId) ==
    LET collection == FindCollection(d, collectionId) IN
    IF collection = NoObject THEN <<>>
    ELSE Concat([i \in 1..Len(collection.levels) |->
            LET level == collection.levels[i]
                units == SelectSeq(level.units, LAMBDA unit : unit.status # "normal")
            IN  [k \in 1..Len(units) |-> StatusEntry(units[k], level, collectionId)]])

getRecommendedUnits(d, collectionId) ==
    LET collection == FindCollection(d, collectionId) IN
    IF collection = NoObject THEN <<>>
    ELSE Concat([i \in 1..Len(collection.levels) |->
            LET level == collection.levels[i]
                units == SelectSeq(level.units, LAMBDA unit : unit.status = "recommended")
            IN  [k \in 1..Len(units) |-> StatusEntry(units[k], level, collectionId)]])

getTrashedUnits(d, collectionId) ==
    LET collection == FindCollection(d, collectionId) IN
    IF collection = NoObject THEN <<>>
    ELSE Concat([i \in 1..Len(collection.levels) |->
            LET level == collection.levels[i]
                units == SelectSeq(level.units, LAMBDA unit : unit.status = "trash")
            IN  [k \in 1..Len(units) |-> StatusEntry(units[k], level, collectionId)]])

getFavoriteUnits(d, collectionId, now) ==
    LET collection == FindCollection(d, collectionId) IN
    IF collection = NoObject THEN <<>>
    ELSE Concat([i \in 1..Len(collection.levels) |->
            LET level == collection.levels[i]
                units == SelectSeq(level.units, LAMBDA unit : unit.status = "favorite")
            IN  [k \in 1..Len(units) |->
                    [unit |-> [id |-> units[k].id, name |-> units[k].name],
                     levelName |-> level.name, levelId |-> level.id,
                     collectionId |-> collectionId,
                     reason |-> IF TruthyStr(units[k].favoriteReason)
                                THEN units[k].favoriteReason ELSE DefaultReason,
                     createdAt |-> IF TruthyNum(units[k].favoriteCreatedAt)
                                   THEN units[k].favoriteCreatedAt ELSE now]]])

getUnitFeatures(d) ==
    Concat([i \in 1..Len(d.collections) |->
        Concat([j \in 1..Len(d.collections[i].levels) |->
            Concat([k \in 1..Len(d.collections[i].levels[j].units) |->
                LET unit == d.collections[i].levels[j].units[k] IN
                [f \in 1..Len(unit.features) |->
                    [unitId |-> unit.id, featureId |-> unit.features[f].featureId,
                     value |-> unit.features[f].value]]])])])

AdapterQueries ==
    {"getCollections", "getLevelsByCollectionId", "getFeaturesByCollectionId",
     "getRecommendedUnits", "getTrashedUnits", "getFavoriteUnits", "getUnitFeatures"}

\* one query of the adapter: the manager's structure after the call and the
\* value returned.  map, find, filter and forEach leave their receiver as it is.
AdapterCall_ReverseInPlace(d, query, collectionId, now) ==
    [data |-> [d EXCEPT !.collections =
                    [i \in 1..Len(d.collections) |-> d.collections[Len(d.collections) + 1 - i]]],
     ret |-> CASE query = "getCollections" -> getCollections(d)
               [] query = "getLevelsByCollectionId" -> getLevelsByCollectionId(d, collectionId)
               [] query = "getFeaturesByCollectionId" -> getFeaturesByCollectionId(d, collectionId)
               [] query = "getRecommendedUnits" -> getRecommendedUnits(d, collectionId)
               [] query = "getTrashedUnits" -> getTrashedUnits(d, collectionId)
               [] query = "getFavoriteUnits" -> getFavoriteUnits(d, collectionId, now)
               [] query = "getUnitFeatures" -> getUnitFeatures(d)]

AdapterCall(d, query, collectionId, now) ==
    [data |-> d,
     ret |-> CASE query = "getCollections" -> getCollections(d)
               [] query = "getLevelsByCollectionId" -> getLevelsByCollectionId(d, collectionId)
               [] query = "getFeaturesByCollectionId" -> getFeaturesByCollectionId(d, collectionId)
               [] query = "getRecommendedUnits" -> getRecommendedUnits(d, collectionId)
               [] query = "getTrashedUnits" -> getTrashedUnits(d, collectionId)
               [] query = "getFavoriteUnits" -> getFavoriteUnits(d, collectionId, now)
               [] query = "getUnitFeatures" -> getUnitFeatures(d)]

(***************************************************************************)
(* Arguments the manager is called with                                    *)
(***************************************************************************)
FeatureValue(fid) == [featureId |-> fid, value |-> "7"]
Unit(id, status, features, favoriteReason, favoriteCreatedAt) ==
    [id |-> id, name |-> NameOf(id), status |-> status, features |-> features,
     favoriteReason |-> favoriteReason, favoriteCreatedAt |-> favoriteCreatedAt]
Level(id, units) ==
    [id |-> id, name |-> NameOf(id), identifier |-> IdentifierOf(id), units |-> units,
     createdAt |-> 1]
Collection(id, levels) ==
    [id |-> id, name |-> NameOf(id), createdAt |-> 1, levels |-> levels]
Feature(id) == [id |-> id, name |-> NameOf(id), type |-> "numeric", createdAt |-> 1]

FavoriteUnitInput == Unit("u2", "favorite", <<FeatureValue("f1")>>, "r", 5)
\* values of type Unit: the type allows favoriteReason on any status
UnitInputs ==
    {Unit("u1", "normal", <<>>, Undefined, UndefinedNum),
     FavoriteUnitInput,
     Unit("u1", "trash", <<>>, "r", UndefinedNum)}
LevelInputs == {Level("l1", <<>>), Level("l2", <<FavoriteUnitInput>>)}
CollectionInputs ==
    {Collection("c1", <<>>), Collection("c2", <<Level("l2", <<FavoriteUnitInput>>)>>)}
FeatureInputs == {Feature(f) : f \in FeatureIds}
\* (favoriteReason, Date.now()) of a call that sets favorite; the reason may be omitted
FavoriteArgs == {<<Undefined, 8>>, <<"", 9>>, <<"r", 9>>}

\* structures loadUnifiedData hands to setData after a migration
SampleBundles ==
    {[collections |-> <<OldCollection("c1")>>,
      levels |-> <<[id |-> "l1", collectionId |-> "c1", name |-> NameOf("l1"),
                    identifier |-> "numeric", units |-> <<OldUnit("u1")>>,
                    createdAt |-> 1]>>,
      features |-> <<OldFeature("f1")>>,
      unitFeatures |-> ufs,
      recommendedUnits |-> <<>>,
      trashedUnits |-> <<>>,
      favoriteUnits |-> favs] :
        <<ufs, favs>> \in
            {<< <<>>, [c \in {"c1"} |-> <<FavEntry("u1", "l1", "r", 5)>>] >>,
             << <<>>, [c \in {"c1"} |-> <<FavEntry("u1", "l1", "", 0)>>] >>,
             << <<[unitId |-> "u1", featureId |-> "f2", value |-> "7"]>>, <<>> >>}}
MigratedSamples == {migrateToUnifiedStructure(L) : L \in SampleBundles}

\* strings handed to importFromJSON
JsonInputs ==
    {Garbage,
     JsonText(JsNull),
     JsonText(JsNumber),
     JsonText(JsRoot(JsString, JsObject(<<>>))),
     JsonText(JsRoot(JsUndefined, JsObject(<<>>))),
     JsonText(JsRoot(JsArray(<<>>), JsNull)),
     JsonText(JsRoot(JsArray(<<>>), JsUndefined)),
     JsonText(JsRoot(JsArray(<<>>), JsString)),
     JsonText(JsRoot(JsArray(<<>>), JsArray(<<>>))),
     Stringify(EmptyData),
     Stringify([collections |-> <<Collection("c2", <<Level("l2", <<FavoriteUnitInput>>)>>)>>,
                features |-> <<>>])}

\* index arguments: every index of the sequence, one below and one above
Indices(s) == -1..Len(s)
LevelsAt(d, collectionIndex) ==
    IF getCollection(d, collectionIndex) = NoObject THEN <<>>
    ELSE getCollection(d, collectionIndex).levels
UnitsAt(d, collectionIndex, levelIndex) ==
    IF getLevel(d, collectionIndex, levelIndex) = NoObject THEN <<>>
    ELSE getLevel(d, collectionIndex, levelIndex).units

\* an index that is negative or not less than the length of the sequence
OutOfBounds(s, index) == index < 0 \/ index >= Len(s)

\* level and unit index arguments; below an out-of-bounds parent index only 0
LevelIndices(d, collectionIndex) ==
    IF OutOfBounds(d.collections, collectionIndex) THEN {0}
    ELSE Indices(LevelsAt(d, collectionIndex))
UnitIndices(d, collectionIndex, levelIndex) ==
    IF OutOfBounds(LevelsAt(d, collectionIndex), levelIndex) THEN {0}
    ELSE Indices(UnitsAt(d, collectionIndex, levelIndex))

Call(op, arg, oob, hit, ret) == [op |-> op, arg |-> arg, oob |-> oob, hit |-> hit, ret |-> ret]

\* all units of a structure
AllUnits(d) ==
    UNION {UNION {Range(lv.units) : lv \in Range(c.levels)} : c \in Range(d.collections)}

(***************************************************************************)
(* SpecManager: one action per method of UnifiedDataManager                *)
(***************************************************************************)
MigIdle ==
    /\ legacy = EmptyBundle
    /\ unified = EmptyData
    /\ back = EmptyBundle
    /\ again = EmptyData
    /\ mpc = "start"

\* a populated, well-formed structure: two collections, two levels, two units
PopulatedData ==
    [collections |->
        <<Collection("c1",
            <<Level("l1", <<Unit("u1", "normal", <<FeatureValue("f1"), FeatureValue("f2")>>,
                                 Undefined, UndefinedNum),
                            Unit("u2", "favorite", <<FeatureValue("f2")>>, "r", 5)>>),
              Level("l2", <<Unit("u3", "recommended", <<FeatureValue("f1")>>,
                                 Undefined, UndefinedNum)>>)>>),
          Collection("c2",
            <<Level("l1", <<Unit("u1", "trash", <<FeatureValue("f1")>>,
                                 Undefined, UndefinedNum)>>)>>)>>,
     features |-> <<Feature("f1"), Feature("f2")>>]

\* new UnifiedDataManager(initialData): empty by default, or what the caller
\* loaded, migrated or built before
InitialData ==
    {EmptyData, PopulatedData,
     migrateToUnifiedStructure(
        [collections |-> <<OldCollection("c1")>>,
         levels |-> <<[id |-> "l1", collectionId |-> "c1", name |-> NameOf("l1"),
                       identifier |-> "numeric", units |-> <<OldUnit("u1")>>,
                       createdAt |-> 1]>>,
         features |-> <<OldFeature("f1")>>,
         unitFeatures |-> <<[unitId |-> "u1", featureId |-> "f1", value |-> "7"]>>,
         recommendedUnits |-> <<>>,
         trashedUnits |-> <<>>,
         favoriteUnits |-> [c \in {"c1"} |-> <<FavEntry("u1", "l1", "r", 5)>>]])}

InitManager ==
    /\ data \in InitialData
    /\ lastCall = NoCall
    /\ nOps = 0
    /\ MigIdle
    /\ GwIdle
    /\ OvIdle
    /\ SesIdle

\* every call counts against the length of the run
Called == nOps < MaxOps /\ nOps' = nOps + 1

SetData ==
    /\ Called
    /\ \E d \in MigratedSamples :
        /\ data' = d
        /\ lastCall' = Call("setData", "none", FALSE, FALSE, "void")
    /\ UNCHANGED <<migVars, gwVars, ovVars, sesVars>>

AddCollection ==
    /\ Called
    /\ \E c \in CollectionInputs :
        /\ data' = addCollection(data, c)
        /\ lastCall' = Call("addCollection", "none", FALSE, FALSE, "void")
    /\ UNCHANGED <<migVars, gwVars, ovVars, sesVars>>

RemoveCollection ==
    /\ Called
    /\ \E ci \in Indices(data.collections) :
        /\ data' = removeCollection(data, ci)
        /\ lastCall' = Call("removeCollection", "none",
                            OutOfBounds(data.collections, ci), FALSE, "void")
    /\ UNCHANGED <<migVars, gwVars, ovVars, sesVars>>

UpdateCollection ==
    /\ Called
    /\ \E ci \in Indices(data.collections), c \in CollectionInputs :
        /\ data' = updateCollection(data, ci, c)
        /\ lastCall' = Call("updateCollection", "none",
                            OutOfBounds(data.collections, ci), FALSE, "void")
    /\ UNCHANGED <<migVars, gwVars, ovVars, sesVars>>

AddLevel ==
    /\ Called
    /\ \E ci \in Indices(data.collections), lv \in LevelInputs :
        /\ data' = addLevel(data, ci, lv)
        /\ lastCall' = Call("addLevel", "none",
                            OutOfBounds(data.collections, ci), FALSE, "void")
    /\ UNCHANGED <<migVars, gwVars, ovVars, sesVars>>

RemoveLevel ==
    /\ Called
    /\ \E ci \in Indices(data.collections) :
       \E li \in LevelIndices(data, ci) :
        /\ data' = removeLevel(data, ci, li)
        /\ lastCall' = Call("removeLevel", "none",
                            \/ OutOfBounds(data.collections, ci)
                            \/ OutOfBounds(LevelsAt(data, ci), li), FALSE, "void")
    /\ UNCHANGED <<migVars, gwVars, ovVars, sesVars>>

UpdateLevel ==
    /\ Called
    /\ \E ci \in Indices(data.collections), lv \in LevelInputs :
       \E li \in LevelIndices(data, ci) :
        /\ data' = updateLevel(data, ci, li, lv)
        /\ lastCall' = Call("updateLevel", "none",
                            \/ OutOfBounds(data.collections, ci)
                            \/ OutOfBounds(LevelsAt(data, ci), li), FALSE, "void")
    /\ UNCHANGED <<migVars, gwVars, ovVars, sesVars>>

AddUnit ==
    /\ Called
    /\ \E ci \in Indices(data.collections), u \in UnitInputs :
       \E li \in LevelIndices(data, ci) :
        /\ data' = addUnit(data, ci, li, u)
        /\ lastCall' = Call("addUnit", "none",
                            \/ OutOfBounds(data.collections, ci)
                            \/ OutOfBounds(LevelsAt(data, ci), li), FALSE, "void")
    /\ UNCHANGED <<migVars, gwVars, ovVars, sesVars>>

RemoveUnit ==
    /\ Called
    /\ \E ci \in Indices(data.collections) :
       \E li \in LevelIndices(data, ci) :
       \E ui \in UnitIndices(data, ci, li) :
        /\ data' = removeUnit(data, ci, li, ui)
        /\ lastCall' = Call("removeUnit", "none",
                            \/ OutOfBounds(data.collections, ci)
                            \/ OutOfBounds(LevelsAt(data, ci), li)
                            \/ OutOfBounds(UnitsAt(data, ci, li), ui), FALSE, "void")
    /\ UNCHANGED <<migVars, gwVars, ovVars, sesVars>>

UpdateUnit ==
    /\ Called
    /\ \E ci \in Indices(data.collections), u \in UnitInputs :
       \E li \in LevelIndices(data, ci) :
       \E ui \in UnitIndices(data, ci, li) :
        /\ data' = updateUnit(data, ci, li, ui, u)
        /\ lastCall' = Call("updateUnit", "none",
                            \/ OutOfBounds(data.collections, ci)
                            \/ OutOfBounds(LevelsAt(data, ci), li)
                            \/ OutOfBounds(UnitsAt(data, ci, li), ui), FALSE, "void")
    /\ UNCHANGED <<migVars, gwVars, ovVars, sesVars>>

UpdateUnitStatus ==
    /\ Called
    /\ \E ci \in Indices(data.collections), status \in Statuses :
       \E fa \in (IF status = "favorite" THEN FavoriteArgs ELSE {<<Undefined, 9>>}) :
       \E li \in LevelIndices(data, ci) :
       \E ui \in UnitIndices(data, ci, li) :
        /\ data' = updateUnitStatus(data, ci, li, ui, status, fa[1], fa[2])
        /\ lastCall' = Call("updateUnitStatus",
                            [collectionIndex |-> ci, levelIndex |-> li, unitIndex |-> ui,
                             status |-> status, favoriteReason |-> fa[1], now |-> fa[2]],
                            \/ OutOfBounds(data.collections, ci)
                            \/ OutOfBounds(LevelsAt(data, ci), li)
                            \/ OutOfBounds(UnitsAt(data, ci, li), ui), FALSE, "void")
    /\ UNCHANGED <<migVars, gwVars, ovVars, sesVars>>

AddFeature ==
    /\ Called
    /\ \E f \in FeatureInputs :
        /\ data' = addFeature(data, f)
        /\ lastCall' = Call("addFeature", f.id, FALSE, FALSE, "void")
    /\ UNCHANGED <<migVars, gwVars, ovVars, sesVars>>

UpdateFeature ==
    /\ Called
    /\ \E f \in FeatureInputs :
        /\ data' = updateFeature(data, f.id, [f EXCEPT !.type = "single_choice"])
        /\ lastCall' = Call("updateFeature", f.id, FALSE, FALSE, "void")
    /\ UNCHANGED <<migVars, gwVars, ovVars, sesVars>>

RemoveFeature ==
    /\ Called
    /\ \E fid \in FeatureIds :
        /\ data' = removeFeature(data, fid)
        /\ lastCall' = Call("removeFeature", fid, FALSE,
                            /\ ObjHas(data.features, fid)
                            /\ \E u \in AllUnits(data) :
                                 \E i \in 1..Len(u.features) : u.features[i].featureId = fid,
                            "void")
    /\ UNCHANGED <<migVars, gwVars, ovVars, sesVars>>

ImportFromJSON ==
    /\ Called
    /\ \E text \in JsonInputs :
        /\ data' = importFromJSON(data, text).data
        /\ lastCall' = Call("importFromJSON", text, FALSE, FALSE,
                            importFromJSON(data, text).ret)
    /\ UNCHANGED <<migVars, gwVars, ovVars, sesVars>>

\* the ids the pages ask the adapter about, one of them of no collection
UnknownCollectionId == "c9"
QueryCollectionIds(query) ==
    IF query \in {"getCollections", "getUnitFeatures"} THEN {"none"}
    ELSE CollIds \cup {UnknownCollectionId}
QueryTimes(query) == IF query = "getFavoriteUnits" THEN Times ELSE {9}

AdapterQuery ==
    /\ Called
    /\ \E query \in AdapterQueries :
       \E collectionId \in QueryCollectionIds(query), now \in QueryTimes(query) :
        LET r == AdapterCall(getData(data), query, collectionId, now) IN
        /\ data' = r.data
        /\ lastCall' = Call(query, [collectionId |-> collectionId, now |-> now],
                            FALSE, FALSE, r.ret)
    /\ UNCHANGED <<migVars, gwVars, ovVars, sesVars>>

\* how a read of the clipboard can end
ClipboardReads ==
    {ClipboardRead(FALSE, EmptyText)}
        \cup {ClipboardRead(TRUE, text) : text \in JsonInputs \cup {EmptyText}}

\* pasteFromClipboard, taken when the read of the clipboard settles: the part
\* before the await reads and writes nothing of the manager
PasteFromClipboard ==
    /\ Called
    /\ \E read \in ClipboardReads :
        /\ data' = pasteFromClipboard(data, read).data
        /\ lastCall' = Call("pasteFromClipboard", read, FALSE, FALSE,
                            pasteFromClipboard(data, read).ret)
    /\ UNCHANGED <<migVars, gwVars, ovVars, sesVars>>

CopyToClipboard ==
    /\ Called
    /\ \E setStringThrows \in BOOLEAN :
        /\ data' = copyToClipboard(data, setStringThrows).data
        /\ lastCall' = Call("copyToClipboard",
                            [setStringThrows |-> setStringThrows,
                             text |-> copyToClipboard(data, setStringThrows).text],
                            FALSE, FALSE, copyToClipboard(data, setStringThrows).ret)
    /\ UNCHANGED <<migVars, gwVars, ovVars, sesVars>>

\* the unit ids asked for, one of them of no unit
UnknownUnitId == "u9"
FindUnitIds == UnitIds \cup {UnknownUnitId}

FindUnit ==
    /\ Called
    /\ \E unitId \in FindUnitIds :
        /\ data' = data
        /\ lastCall' = Call("findUnit", unitId, FALSE, FALSE, findUnit(data, unitId))
    /\ UNCHANGED <<migVars, gwVars, ovVars, sesVars>>

NextManager ==
    \/ SetData
    \/ AddCollection \/ RemoveCollection \/ UpdateCollection
    \/ AddLevel \/ RemoveLevel \/ UpdateLevel
    \/ AddUnit \/ RemoveUnit \/ UpdateUnit \/ UpdateUnitStatus
    \/ AddFeature \/ UpdateFeature \/ RemoveFeature
    \/ ImportFromJSON
    \/ AdapterQuery
    \/ PasteFromClipboard \/ CopyToClipboard
    \/ FindUnit

SpecManager == InitManager /\ [][NextManager]_vars

(***************************************************************************)
(* Properties of the manager                                               *)
(***************************************************************************)
\* C2: every unit of the manager's structure has a status other than favorite
\* exactly when favoriteReason and favoriteCreatedAt are both absent.
C2_StatusFavoriteFields ==
    \A u \in AllUnits(data) :
        (u.status # "favorite") <=>
            (u.favoriteReason = Undefined /\ u.favoriteCreatedAt = UndefinedNum)

\* C3: every featureId in a unit's features list is a key of the root
\* features mapping.
C3_ReferentialIntegrity ==
    \A u \in AllUnits(data) :
        \A i \in 1..Len(u.features) : ObjHas(data.features, u.features[i].featureId)

\* C4: right after removeFeature(f) no unit has a features entry for f and f
\* is not a key of the features mapping.
C4_CascadeIntegrity ==
    lastCall.op = "removeFeature" =>
        /\ \A u \in AllUnits(data) :
             \A i \in 1..Len(u.features) : u.features[i].featureId # lastCall.arg
        /\ lastCall.arg \notin ObjKeys(data.features)

\* removeFeature was called for a feature that existed and that a unit referenced
C4_Witness == lastCall.op = "removeFeature" /\ lastCall.hit

\* C11: importFromJSON(exportToJSON()) into a fresh empty manager returns
\* true and leaves that manager with a structure equal to the exported one.
C11_ExportImportRoundTrip ==
    importFromJSON(EmptyData, exportToJSON(data)) = [data |-> data, ret |-> "true"]

\* the exported structure was built by addUnit and holds a favorite unit with
\* its reason next to a unit without one
C11_Witness ==
    /\ lastCall.op = "addUnit"
    /\ ~lastCall.oob
    /\ \E u \in AllUnits(data) : u.status = "favorite" /\ u.favoriteReason = "r"
    /\ \E u \in AllUnits(data) : u.favoriteReason = Undefined

\* a string that does not parse, or whose value is not an object with
\* collections an array and features a non-null object (an array is an object)
InvalidImport(text) ==
    \/ text.kind # "json"
    \/ text.value.type # "object"
    \/ text.value.collections.type # "array"
    \/ text.value.features.type \in {"undefined", "null", "string", "number"}

C8_OutOfBoundsNoOp ==
    [][lastCall'.oob => (data' = data /\ lastCall'.ret # "throw")]_vars

\* updateUnit was called with an out-of-bounds index on a structure with units
C8_Witness ==
    /\ lastCall.op = "updateUnit"
    /\ lastCall.oob
    /\ AllUnits(data) # {}

\* a step that is an in-bounds call of updateUnitStatus
StatusUpdated == lastCall'.op = "updateUnitStatus" /\ ~lastCall'.oob

\* the unit a call of updateUnitStatus addresses, in structure d
Addressed(d, a) == UnitsAt(d, a.collectionIndex, a.levelIndex)[a.unitIndex + 1]

\* what an in-bounds updateUnitStatus leaves apart from favoriteReason: the
\* status is set, favoriteCreatedAt is the current time for favorite, both
\* fields are absent for another status, id, name and features of the unit
\* and everything else in the structure are as before
StatusUpdateFrame(a) ==
    /\ Addressed(data', a).status = a.status
    /\ a.status = "favorite" => Addressed(data', a).favoriteCreatedAt = a.now
    /\ a.status # "favorite" =>
          /\ Addressed(data', a).favoriteReason = Undefined
          /\ Addressed(data', a).favoriteCreatedAt = UndefinedNum
    /\ Addressed(data', a).id = Addressed(data, a).id
    /\ Addressed(data', a).name = Addressed(data, a).name
    /\ Addressed(data', a).features = Addressed(data, a).features
    /\ updateUnit(data', a.collectionIndex, a.levelIndex, a.unitIndex, Addressed(data, a)) = data

\* C18: an in-bounds updateUnitStatus sets the status; for favorite the unit
\* then has the given reason, or the default when none is given, and the
\* current time; for another status both fields are absent; id, name and
\* features of the unit and every other unit are unchanged.
C18_UpdateUnitStatus ==
    [][StatusUpdated =>
          /\ StatusUpdateFrame(lastCall'.arg)
          /\ lastCall'.arg.status = "favorite" =>
                Addressed(data', lastCall'.arg).favoriteReason =
                    IF lastCall'.arg.favoriteReason = Undefined THEN DefaultReason
                    ELSE lastCall'.arg.favoriteReason
      ]_vars

\* C18 amended: as C18, with the default reason also when the given reason
\* is the empty string.
C18_UpdateUnitStatusAmended ==
    [][StatusUpdated =>
          /\ StatusUpdateFrame(lastCall'.arg)
          /\ lastCall'.arg.status = "favorite" =>
                Addressed(data', lastCall'.arg).favoriteReason =
                    IF lastCall'.arg.favoriteReason \in {Undefined, ""} THEN DefaultReason
                    ELSE lastCall'.arg.favoriteReason
      ]_vars

\* updateUnitStatus has set favorite with the empty string as reason on a
\* structure with more than one unit
C18_Witness ==
    /\ lastCall.op = "updateUnitStatus"
    /\ ~lastCall.oob
    /\ lastCall.arg.status = "favorite"
    /\ lastCall.arg.favoriteReason = ""
    /\ Cardinality(AllUnits(data)) > 1

(***************************************************************************)
(* UnifiedStorage over the key-value store                                 *)
(***************************************************************************)
\* the text of the completion marker
TrueText == [kind |-> "true"]

\* JSON.stringify of the legacy arrays and mappings
StringifyArray(items) == JsonText(JsArray(items))
StringifyMap(map) == JsonText(JsObject(map))

\* json ? JSON.parse(json) : default, for one legacy key
ParseOr(item, default) ==
    IF item.kind = "null" THEN [ok |-> TRUE, value |-> default]
    ELSE JsonParse(item)

\* the seven values migrate() hands to the transform
LegacyValues(keys) ==
    [collections |-> ParseOr(keys.collections, JsArray(<<>>)),
     levels |-> ParseOr(keys.levels, JsArray(<<>>)),
     features |-> ParseOr(keys.features, JsArray(<<>>)),
     unitFeatures |-> ParseOr(keys.unit_features, JsArray(<<>>)),
     recommendedUnits |-> ParseOr(keys.recommended_units, JsObject(<<>>)),
     trashedUnits |-> ParseOr(keys.trashed_units, JsObject(<<>>)),
     favoriteUnits |-> ParseOr(keys.favorite_units, JsObject(<<>>))]

LegacyFields ==
    {"collections", "levels", "features", "unitFeatures",
     "recommendedUnits", "trashedUnits", "favoriteUnits"}

\* one of the JSON.parse calls throws
ParseThrows(values) == \E k \in LegacyFields : ~values[k].ok

\* variant: the transform also throws when there is no legacy level
TransformThrows_OnNoLevel(values) ==
    \/ values.features.value.type # "array"
    \/ values.collections.value.type # "array"
    \/ values.levels.value.type # "array"
    \/ values.levels.value.items = <<>>

\* the transform throws a TypeError when it calls forEach or filter on a value
\* that is not an array: oldFeatures and oldCollections always, oldLevels once
\* there is a collection
TransformThrows(values) ==
    \/ values.features.value.type # "array"
    \/ values.collections.value.type # "array"
    \/ /\ values.collections.value.items # <<>>
       /\ values.levels.value.type # "array"

\* the legacy bundle the transform works on
BundleOf(values) ==
    [collections |-> values.collections.value.items,
     levels |-> values.levels.value.items,
     features |-> values.features.value.items,
     unitFeatures |-> values.unitFeatures.value.items,
     recommendedUnits |-> values.recommendedUnits.value.entries,
     trashedUnits |-> values.trashedUnits.value.entries,
     favoriteUnits |-> values.favoriteUnits.value.entries]

(***************************************************************************)
(* Stores the gateway starts on                                            *)
(***************************************************************************)
StoredLevel == [id |-> "l1", collectionId |-> "c1", name |-> NameOf("l1"),
                identifier |-> "numeric", units |-> <<OldUnit("u1")>>, createdAt |-> 1]

FullLegacyKeys ==
    [collections |-> StringifyArray(<<OldCollection("c1")>>),
     levels |-> StringifyArray(<<StoredLevel>>),
     features |-> StringifyArray(<<OldFeature("f1")>>),
     unit_features |-> StringifyArray(<<[unitId |-> "u1", featureId |-> "f1", value |-> "7"]>>),
     recommended_units |-> StringifyMap(<<>>),
     trashed_units |-> StringifyMap(<<>>),
     favorite_units |-> StringifyMap([c \in {"c1"} |-> <<FavEntry("u1", "l1", "r", 5)>>])]

LegacyStores ==
    {NoLegacyKeys,
     FullLegacyKeys,
     \* only the collections key was ever written
     [NoLegacyKeys EXCEPT !.collections = StringifyArray(<<OldCollection("c1")>>)],
     \* the collections key holds the empty array
     [NoLegacyKeys EXCEPT !.collections = StringifyArray(<<>>)],
     \* a key whose text does not parse
     [FullLegacyKeys EXCEPT !.levels = Garbage],
     \* a key whose text is the JSON null
     [FullLegacyKeys EXCEPT !.levels = JsonText(JsNull)]}

SavedData == [collections |-> <<Collection("c2", <<>>)>>, features |-> <<>>]

UnifiedItems ==
    {NullItem, Garbage, JsonText(JsNull), JsonText(JsRoot(JsArray(<<>>), JsNull)),
     JsonText(JsRoot(JsString, JsObject(<<>>))),
     JsonText(JsRoot(JsArray(<<>>), JsArray(<<>>))), Stringify(SavedData)}

SaveInputs == {EmptyData, PopulatedData}

(***************************************************************************)
(* SpecGateway: loadUnifiedData() and saveUnifiedData(), one call at a     *)
(* time, one step per await; a read or write may reject and the process    *)
(* may be killed between two steps                                         *)
(***************************************************************************)
InitGateway ==
    /\ \E keys \in LegacyStores, item \in UnifiedItems :
        \* a store that holds legacy keys was written by the legacy app only
        /\ keys # NoLegacyKeys => item = NullItem
        /\ store = [marker |-> NullItem, unified |-> item, legacy |-> keys]
    /\ gpc = "idle"
    /\ glocal = NoLocals
    /\ gret = NoReturn
    /\ hist = NoHistory
    /\ MigIdle
    /\ data = EmptyData
    /\ lastCall = NoCall
    /\ nOps = 0
    /\ OvIdle
    /\ SesIdle

\* variant: saveData() logs the error and returns
saveData_Swallows(outcome) == "returned"

\* the hook's saveData(): await saveUnifiedData(...); catch: log, throw error
saveData(outcome) == IF outcome = "threw" THEN "threw" ELSE outcome

\* the hook's updateData(): await saveData(), outside any try block
updateData(outcome) == saveData(outcome)

Return(call, outcome, value, path) ==
    /\ gpc' = "idle"
    /\ glocal' = NoLocals
    /\ gret' = [call |-> call, outcome |-> outcome, value |-> value, path |-> path,
                hook |-> IF call = "save" THEN updateData(outcome) ELSE "none"]

LoadReturn(value, path) ==
    /\ Return("load", "returned", value, path)
    /\ hist' = [hist EXCEPT !.loadsDone = @ + 1]

\* loadUnifiedData() is called
StartLoad ==
    /\ gpc = "idle"
    /\ hist.loads < MaxLoads
    /\ gpc' = "nm_flag"
    /\ glocal' = [NoLocals EXCEPT !.call = "load"]
    /\ hist' = [hist EXCEPT !.loads = @ + 1]
    /\ UNCHANGED <<store, gret, migVars, mgrVars, ovVars, sesVars>>

\* migrationFlag === "true"
FlagSaysMigrated(migrationFlag) == migrationFlag = TrueText

\* variant: legacy data is taken to be present without looking at the key
LegacyPresent_Always(oldCollections) == TRUE

\* oldCollections != null
LegacyPresent(oldCollections) == oldCollections # NullItem

\* needsMigration(): await getItem(MIGRATION_FLAG_KEY)
ReadFlag ==
    /\ gpc = "nm_flag"
    /\ \E resolves \in BOOLEAN :
        IF ~resolves
        THEN \* catch: return false
             /\ gpc' = "load_read"
             /\ glocal' = [glocal EXCEPT !.readFailed = TRUE]
        ELSE /\ gpc' = IF FlagSaysMigrated(store.marker) THEN "load_read" ELSE "nm_legacy"
             /\ UNCHANGED glocal
    /\ UNCHANGED <<store, gret, hist, migVars, mgrVars, ovVars, sesVars>>

\* needsMigration(): await getItem("@sf_app:collections"); return oldCollections != null
ReadLegacyKey ==
    /\ gpc = "nm_legacy"
    /\ \E resolves \in BOOLEAN :
        IF ~resolves
        THEN /\ gpc' = "load_read"
             /\ glocal' = [glocal EXCEPT !.readFailed = TRUE]
        ELSE /\ gpc' = IF LegacyPresent(store.legacy.collections) THEN "mig_read" ELSE "load_read"
             /\ UNCHANGED glocal
    /\ UNCHANGED <<store, gret, hist, migVars, mgrVars, ovVars, sesVars>>

\* variant: the catch block returns what the transform had built
MigrateCatchValue_NewData(newData) == newData

\* migrate(), catch block: return {collections: [], features: {}}
MigrateCatchValue(newData) == EmptyData

\* migrate(), catch (error): log it and return the empty structure
MigrateCatch(error) ==
    /\ Return("load", "returned", MigrateCatchValue(glocal.value), "migrate_catch")
    /\ hist' = [hist EXCEPT !.loadsDone = @ + 1, !.lastError = error]

\* migrate(): await Promise.all of the seven reads, the JSON.parse calls and
\* the call of the forward transform
MigrateRead ==
    /\ gpc = "mig_read"
    /\ \E resolves \in BOOLEAN :
        LET values == LegacyValues(store.legacy)
        IN  IF ~resolves THEN MigrateCatch("rejected")
            ELSE IF ParseThrows(values) THEN MigrateCatch("SyntaxError")
            ELSE IF TransformThrows(values) THEN MigrateCatch("TypeError")
            ELSE /\ gpc' = "mig_writeData"
                 /\ glocal' = [glocal EXCEPT
                                 !.value = migrateToUnifiedStructure(BundleOf(values))]
                 /\ hist' = [hist EXCEPT !.forwardRuns = @ + 1]
                 /\ UNCHANGED gret
    /\ UNCHANGED <<store, migVars, mgrVars, ovVars, sesVars>>

\* variant: the completion marker is written before the unified blob
MigrateWrites_MarkerFirst(newData) ==
    <<[key |-> "marker", item |-> TrueText],
      [key |-> "unified", item |-> Stringify(newData)]>>

\* variant: the unified blob is written twice and the marker never
MigrateWrites_BlobOnly(newData) ==
    <<[key |-> "unified", item |-> Stringify(newData)],
      [key |-> "unified", item |-> Stringify(newData)]>>

\* the two writes of migrate(), in program order:
\*   await setItem(UNIFIED_DATA_KEY, JSON.stringify(newData))
\*   await setItem(MIGRATION_FLAG_KEY, "true")
MigrateWrites(newData) ==
    <<[key |-> "unified", item |-> Stringify(newData)],
      [key |-> "marker", item |-> TrueText]>>

\* variant: migrate() removes the legacy keys once the blob is written
AfterWrite_DropsLegacy(w) ==
    /\ store' = [store EXCEPT ![w.key] = w.item, !.legacy = NoLegacyKeys]
    /\ hist' = IF w.key = "unified"
               THEN [hist EXCEPT !.blobWritten = TRUE, !.lastWriter = "migrate"]
               ELSE hist

\* the store and the history after a write of migrate() has completed
AfterWrite(w) ==
    /\ store' = [store EXCEPT ![w.key] = w.item]
    /\ hist' = IF w.key = "unified"
               THEN [hist EXCEPT !.blobWritten = TRUE, !.lastWriter = "migrate"]
               ELSE hist

\* migrate(): the first awaited write
MigrateWriteData ==
    /\ gpc = "mig_writeData"
    /\ \E resolves \in BOOLEAN :
        IF ~resolves
        THEN /\ MigrateCatch("rejected")
             /\ UNCHANGED store
        ELSE /\ AfterWrite(MigrateWrites(glocal.value)[1])
             /\ gpc' = "mig_writeFlag"
             /\ UNCHANGED <<glocal, gret>>
    /\ UNCHANGED <<migVars, mgrVars, ovVars, sesVars>>

\* migrate(): the second awaited write; return newData
MigrateWriteFlag ==
    /\ gpc = "mig_writeFlag"
    /\ \E resolves \in BOOLEAN :
        IF ~resolves
        THEN /\ MigrateCatch("rejected")
             /\ UNCHANGED store
        ELSE /\ store' = [store EXCEPT ![MigrateWrites(glocal.value)[2].key] =
                                            MigrateWrites(glocal.value)[2].item]
             /\ Return("load", "returned", glocal.value, "migrate_newData")
             /\ hist' = [hist EXCEPT
                           !.loadsDone = @ + 1,
                           !.blobWritten =
                               @ \/ MigrateWrites(glocal.value)[2].key = "unified",
                           !.lastWriter =
                               IF MigrateWrites(glocal.value)[2].key = "unified"
                               THEN "migrate" ELSE @]
    /\ UNCHANGED <<migVars, mgrVars, ovVars, sesVars>>

\* variant: the stored blob is never used
LoadedFrom_AlwaysDefault(item) == EmptyData

\* what loadUnifiedData() returns for the item read from the unified key
LoadedFrom(item) ==
    IF item.kind = "null" THEN EmptyData
    ELSE IF ~JsonParse(item).ok THEN EmptyData
    ELSE IF validateDataStructure(JsonParse(item).value) THEN AsData(JsonParse(item).value)
    ELSE EmptyData

\* the return statement of loadUnifiedData() that is reached for the item
LoadPath(item) ==
    IF item.kind = "null" THEN "load_default"
    ELSE IF ~JsonParse(item).ok THEN "load_catch"
    ELSE IF validateDataStructure(JsonParse(item).value) THEN "load_parsedData"
    ELSE "load_default"

\* loadUnifiedData(): await getItem(UNIFIED_DATA_KEY), parse, validate
LoadRead ==
    /\ gpc = "load_read"
    /\ \E resolves \in BOOLEAN :
        IF resolves
        THEN LoadReturn(LoadedFrom(store.unified), LoadPath(store.unified))
        ELSE LoadReturn(EmptyData, "load_catch")
    /\ UNCHANGED <<store, migVars, mgrVars, ovVars, sesVars>>

\* saveUnifiedData(data) is called
StartSave ==
    /\ gpc = "idle"
    /\ hist.saves < MaxSaves
    /\ \E d \in SaveInputs :
        glocal' = [NoLocals EXCEPT !.call = "save", !.value = d]
    /\ gpc' = "save_write"
    /\ hist' = [hist EXCEPT !.saves = @ + 1]
    /\ UNCHANGED <<store, gret, migVars, mgrVars, ovVars, sesVars>>

\* saveUnifiedData(): await setItem(UNIFIED_DATA_KEY, jsonValue); a rejection is rethrown
SaveWrite ==
    /\ gpc = "save_write"
    /\ \E resolves \in BOOLEAN :
        IF ~resolves
        THEN /\ Return("save", "threw", glocal.value, "save_catch")
             /\ UNCHANGED <<store, hist>>
        ELSE /\ store' = [store EXCEPT !.unified = Stringify(glocal.value)]
             /\ hist' = [hist EXCEPT !.lastWriter = "save"]
             /\ Return("save", "returned", glocal.value, "save_end")
    /\ UNCHANGED <<migVars, mgrVars, ovVars, sesVars>>

\* the process is killed while a call is suspended; the store keeps its keys
Crash ==
    /\ gpc # "idle"
    /\ Return(glocal.call, "crashed", EmptyData, "none")
    /\ UNCHANGED <<store, hist, migVars, mgrVars, ovVars, sesVars>>

NextGateway ==
    \/ StartLoad \/ ReadFlag \/ ReadLegacyKey
    \/ MigrateRead \/ MigrateWriteData \/ MigrateWriteFlag
    \/ LoadRead
    \/ StartSave \/ SaveWrite
    \/ Crash

SpecGateway == InitGateway /\ [][NextGateway]_vars

(***************************************************************************)
(* Properties of the gateway                                               *)
(***************************************************************************)
HasLegacyData == store.legacy.collections # NullItem

\* C5: on a store that holds legacy data and no completion marker, the
\* forward transform is run exactly once over any sequence of loads, also
\* when reads or writes fail: a migration that completed has run it, and no
\* later load runs it again.
C5_MigratedExactlyOnce ==
    HasLegacyData =>
        /\ store.marker = TrueText => hist.forwardRuns >= 1
        /\ hist.forwardRuns <= 1

\* the structure migrate() persists for the legacy keys of the store
MigratedBlob == Stringify(migrateToUnifiedStructure(BundleOf(LegacyValues(store.legacy))))

\* the marker is set only once the migrated blob has been written, and the
\* unified key holds it until a save replaces it
MarkerImpliesBlob ==
    store.marker = TrueText =>
        /\ hist.blobWritten
        /\ hist.lastWriter = "migrate" => store.unified = MigratedBlob

\* C6: the marker is written after the blob, so marker set implies the blob
\* is persisted, and no load finds needsMigration() false on a store with
\* legacy data before the migrated blob is persisted.
C6_MarkerAfterBlob ==
    /\ MarkerImpliesBlob
    /\ (gpc = "load_read" /\ HasLegacyData) => hist.blobWritten

\* C6 amended: as C6, for the loads whose reads inside needsMigration()
\* resolved; a rejected read makes needsMigration() return false at once.
C6_MarkerAfterBlobAmended ==
    /\ MarkerImpliesBlob
    /\ (gpc = "load_read" /\ HasLegacyData /\ ~glocal.readFailed) => hist.blobWritten

\* a later load finds needsMigration() false after a migration that completed
C6_Witness ==
    /\ HasLegacyData
    /\ store.marker = TrueText
    /\ gpc = "load_read"
    /\ ~glocal.readFailed
    /\ hist.loads >= 2

\* a step in which needsMigration() comes to its result: the load goes on to
\* migrate() (true) or to the read of the unified key (false)
NeedsMigrationReturns ==
    /\ gpc \in {"nm_flag", "nm_legacy"}
    /\ gpc' \in {"mig_read", "load_read"}

\* C12: needsMigration() returns false when the marker is set; with the
\* marker unset it returns true exactly when the legacy collections key is
\* present; it returns false when a read rejects; it never throws, so a call
\* inside needsMigration() ends only when the process does.
C12_NeedsMigration ==
    [][/\ NeedsMigrationReturns =>
            (gpc' = "mig_read" <=>
                /\ ~glocal'.readFailed
                /\ store.marker # TrueText
                /\ store.legacy.collections # NullItem)
       /\ (gpc \in {"nm_flag", "nm_legacy"} /\ gpc' = "idle") => gret'.outcome = "crashed"
      ]_vars

\* needsMigration() has returned true on a store without marker
C12_Witness ==
    /\ gpc = "mig_read"
    /\ store.marker = NullItem
    /\ hist.forwardRuns = 0

\* the store in which only the legacy collections key was ever written
OnlyCollectionsKey ==
    store.legacy = [NoLegacyKeys EXCEPT !.collections = StringifyArray(<<OldCollection("c1")>>)]

\* C13: a migrate() in which every storage operation succeeds leaves the
\* unified key with the text of the forward transform of the seven legacy
\* slots (a missing key counts as its empty default), leaves the marker set
\* and returns that structure.
C13_MigrateSuccess ==
    [][(gpc = "mig_writeFlag" /\ gret'.path = "migrate_newData") =>
          /\ gret'.outcome = "returned"
          /\ gret'.value = migrateToUnifiedStructure(BundleOf(LegacyValues(store.legacy)))
          /\ store'.unified = Stringify(gret'.value)
          /\ store'.marker = TrueText
          /\ store'.legacy = store.legacy
          /\ OnlyCollectionsKey =>
                gret'.value = [collections |-> <<Collection("c1", <<>>)>>, features |-> <<>>]
      ]_vars

\* migrate() has returned newData on a store where six legacy keys are missing
C13_Witness ==
    /\ gret.path = "migrate_newData"
    /\ OnlyCollectionsKey
    /\ store.marker = TrueText
    /\ hist.loadsDone = 1

\* a step in which a load that had entered migrate() ends, the process alive
MigrateEnds ==
    /\ gpc \in {"mig_read", "mig_writeData", "mig_writeFlag"}
    /\ gpc' = "idle"
    /\ gret'.outcome # "crashed"

\* C14: a migrate() in which a legacy read rejects, a legacy value does not
\* parse, the transform throws or a write rejects does not throw and returns
\* the empty default structure: whenever migrate() ends without having set
\* the marker, it has returned {collections: [], features: {}}.
C14_MigrateFailure ==
    [][MigrateEnds =>
          /\ gret'.outcome = "returned"
          /\ store'.marker # TrueText => gret'.value = EmptyData
          /\ gret'.path = "migrate_catch" => gret'.value = EmptyData
      ]_vars

\* migrate() has ended in its catch block after the blob was written: the
\* write of the marker was rejected
C14_Witness ==
    /\ gret.path = "migrate_catch"
    /\ hist.blobWritten
    /\ store.marker = NullItem
    /\ hist.loadsDone = 1

\* the item parses to an object with collections an array and features a
\* non-null object
ValidBlob(item) ==
    /\ item.kind = "json"
    /\ item.value.type = "object"
    /\ item.value.collections.type = "array"
    /\ item.value.features.type \in {"object", "array"}

\* a step in which loadUnifiedData() ends, the process alive
LoadEnds ==
    /\ glocal.call = "load"
    /\ gpc' = "idle"
    /\ gret'.outcome # "crashed"

SaveEnds ==
    /\ gpc = "save_write"
    /\ gpc' = "idle"
    /\ gret'.outcome # "crashed"

\* C16: saveUnifiedData(D) replaces the value of the unified key with the
\* text of D and touches no other key; a rejected write is thrown to the
\* caller and on through the hook's saveData() and updateData(), so a save
\* that returns has written D and a save that throws has left the store as
\* it was.
C16_SaveOverwritesOrThrows ==
    [][SaveEnds =>
          /\ gret'.outcome \in {"returned", "threw"}
          /\ gret'.hook = gret'.outcome
          /\ gret'.outcome = "returned" =>
                store' = [store EXCEPT !.unified = Stringify(glocal.value)]
          /\ gret'.outcome = "threw" => store' = store
      ]_vars

\* a save was rejected and the rejection reached the caller of the hook, on
\* a store that holds a migrated blob
C16_Witness ==
    /\ gret.call = "save"
    /\ gret.outcome = "threw"
    /\ gret.hook = "threw"
    /\ store.marker = TrueText

(***************************************************************************)
(* SpecOverlap: the hook's saveData() and updateData() called again while  *)
(* earlier saves are still awaited.  saveData() runs without suspension    *)
(* down to await AsyncStorage.setItem(UNIFIED_DATA_KEY, jsonValue): the    *)
(* text is made and the write is handed to the store at the call.  The     *)
(* store works its requests off one after the other in the order they were *)
(* handed in; each request sets the whole value of its key or is rejected. *)
(* The promise of a request settles some time after the request was        *)
(* worked off.                                                             *)
(***************************************************************************)
\* variant: the store appends the collections of the new text to those stored
WrittenItem_Merge(current, jsonValue) ==
    IF current.kind = "json"
    THEN JsonText(JsRoot(JsArray(current.value.collections.items
                                    \o jsonValue.value.collections.items),
                         jsonValue.value.features))
    ELSE jsonValue

\* the value of the unified key after setItem(UNIFIED_DATA_KEY, jsonValue)
WrittenItem(current, jsonValue) == jsonValue

InitOverlap ==
    /\ calls = <<>>
    /\ data \in {EmptyData, PopulatedData}
    /\ lastCall = NoCall
    /\ nOps = 0
    /\ store = [marker |-> TrueText, unified |-> NullItem, legacy |-> NoLegacyKeys]
    /\ gpc = "idle"
    /\ glocal = NoLocals
    /\ gret = NoReturn
    /\ hist = NoHistory
    /\ MigIdle
    /\ SesIdle

\* saveUnifiedData(data) up to its await: const jsonValue = JSON.stringify(data);
\* AsyncStorage.setItem(UNIFIED_DATA_KEY, jsonValue)
IssueSave(d) ==
    /\ Len(calls) < MaxOverlap
    /\ calls' = Append(calls, [jsonValue |-> Stringify(d), state |-> "queued"])

\* saveData(): the structure of the manager as it is at the call
SaveDataCall ==
    /\ IssueSave(data)
    /\ UNCHANGED <<data, lastCall, nOps, migVars, gwVars, sesVars>>

\* a mutation of the manager followed at once by updateData()
UpdateDataCall ==
    /\ \E c \in CollectionInputs :
        /\ data' = addCollection(data, c)
        /\ IssueSave(addCollection(data, c))
    /\ UNCHANGED <<lastCall, nOps, migVars, gwVars, sesVars>>

\* the request the store works off next: the oldest one still queued
NextQueued == CHOOSE i \in 1..Len(calls) :
                /\ calls[i].state = "queued"
                /\ \A j \in 1..(i - 1) : calls[j].state # "queued"

\* the store works off a request: the write takes place or is rejected
StorageWrite ==
    /\ \E i \in 1..Len(calls) : calls[i].state = "queued"
    /\ \E resolves \in BOOLEAN :
        IF resolves
        THEN /\ store' = [store EXCEPT
                            !.unified = WrittenItem(@, calls[NextQueued].jsonValue)]
             /\ calls' = [calls EXCEPT ![NextQueued].state = "written"]
        ELSE /\ calls' = [calls EXCEPT ![NextQueued].state = "failed"]
             /\ UNCHANGED store
    /\ UNCHANGED <<gpc, glocal, gret, hist, migVars, mgrVars, sesVars>>

\* the awaited promise of a call settles: saveUnifiedData() returns, or throws
\* from its catch block
SaveSettles ==
    /\ \E i \in 1..Len(calls) :
        /\ calls[i].state \in {"written", "failed"}
        /\ calls' = [calls EXCEPT ![i].state =
                        IF calls[i].state = "written" THEN "returned" ELSE "threw"]
    /\ UNCHANGED <<migVars, mgrVars, gwVars, sesVars>>

NextOverlap == SaveDataCall \/ UpdateDataCall \/ StorageWrite \/ SaveSettles

SpecOverlap == InitOverlap /\ [][NextOverlap]_vars

\* every call has returned or thrown
AllSettled == \A i \in 1..Len(calls) : calls[i].state \in {"returned", "threw"}

\* the calls whose write took place
Written == {i \in 1..Len(calls) : calls[i].state \in {"written", "returned"}}

LegacyEmptyOrMissing ==
    /\ \A k \in {"collections", "levels", "features", "unit_features"} :
          \/ store.legacy[k] = NullItem
          \/ store.legacy[k].kind = "json" /\ store.legacy[k].value.type = "array"
    /\ \A k \in {"recommended_units", "trashed_units", "favorite_units"} :
          \/ store.legacy[k] = NullItem
          \/ store.legacy[k].kind = "json" /\ store.legacy[k].value.type = "object"

KnownCollection(d, cid) == \E i \in 1..Len(d.collections) : d.collections[i].id = cid
CollectionOf(d, cid) ==
    LET at == {i \in 1..Len(d.collections) : d.collections[i].id = cid}
    IN  d.collections[CHOOSE i \in at : \A j \in at : i <= j]

\* ret is the legacy view of the collections of d
IsCollectionsView(ret, d) ==
    /\ Len(ret) = Len(d.collections)
    /\ \A i \in 1..Len(ret) :
        /\ ret[i].id = d.collections[i].id
        /\ ret[i].name = d.collections[i].name

\* ret is the legacy view of the levels of collection cid of d
IsLevelsView(ret, d, cid) ==
    IF ~KnownCollection(d, cid) THEN ret = <<>>
    ELSE LET c == CollectionOf(d, cid) IN
         /\ Len(ret) = Len(c.levels)
         /\ \A i \in 1..Len(ret) :
             /\ ret[i].id = c.levels[i].id
             /\ ret[i].collectionId = cid
             /\ Len(ret[i].units) = Len(c.levels[i].units)
             /\ \A k \in 1..Len(ret[i].units) :
                    ret[i].units[k].id = c.levels[i].units[k].id

\* C21: a query of the adapter leaves the manager's structure as it is, and
\* what it returns is the view of the structure the manager holds at that
\* moment, whatever mutation, setData or import came before.
C21_AdapterReadOnlyFresh ==
    [][(lastCall'.op \in AdapterQueries /\ nOps' # nOps) =>
        /\ data' = data
        /\ lastCall'.op = "getCollections" => IsCollectionsView(lastCall'.ret, data')
        /\ lastCall'.op = "getLevelsByCollectionId" =>
                IsLevelsView(lastCall'.ret, data', lastCall'.arg.collectionId)
        /\ lastCall'.ret =
                AdapterCall(data', lastCall'.op, lastCall'.arg.collectionId,
                            lastCall'.arg.now).ret]_vars

\* a query answered with a non-empty list of levels after the structure was
\* changed from the one the manager was built with
C21_Witness ==
    /\ nOps = 2
    /\ lastCall.op = "getLevelsByCollectionId"
    /\ lastCall.ret # <<>>
    /\ data \notin InitialData

\* positions (level, unit) of the units of collection c with a status
StatusPositions(c, status) ==
    {p \in UNION {{<<i, k>> : k \in 1..Len(c.levels[i].units)} : i \in 1..Len(c.levels)} :
        c.levels[p[1]].units[p[2]].status = status}
Before(q, p) == q[1] < p[1] \/ (q[1] = p[1] /\ q[2] < p[2])

\* view lists exactly the units of c with the status, level by level and
\* unit by unit, each with the id and name of its level
IsStatusView(view, c, status) ==
    LET pos == StatusPositions(c, status) IN
    /\ Len(view) = Cardinality(pos)
    /\ \A p \in pos :
        LET n == 1 + Cardinality({q \in pos : Before(q, p)})
            level == c.levels[p[1]]
        IN  /\ view[n].unit.id = level.units[p[2]].id
            /\ view[n].unit.name = level.units[p[2]].name
            /\ view[n].levelId = level.id
            /\ view[n].levelName = level.name

\* C22: for every collection id the three status views list exactly the units
\* of that collection with status recommended, trash and favorite, in level
\* order then unit order, with level id and name; together they hold each
\* unit that is not normal once and no normal unit; an id of no collection
\* gives three empty lists.
C22_AdapterStatusViews ==
    \A cid \in CollIds \cup {UnknownCollectionId}, now \in Times :
        LET rec == getRecommendedUnits(getData(data), cid)
            tra == getTrashedUnits(getData(data), cid)
            fav == getFavoriteUnits(getData(data), cid, now)
        IN  IF ~KnownCollection(data, cid)
            THEN rec = <<>> /\ tra = <<>> /\ fav = <<>>
            ELSE LET c == CollectionOf(data, cid) IN
                 /\ IsStatusView(rec, c, "recommended")
                 /\ IsStatusView(tra, c, "trash")
                 /\ IsStatusView(fav, c, "favorite")
                 /\ Len(rec) + Len(tra) + Len(fav) + Cardinality(StatusPositions(c, "normal"))
                        = Cardinality(UNION {StatusPositions(c, s) : s \in Statuses})

\* a status query answered for a collection that has units of all four
\* statuses, and an unknown id asked about in the same state
C22_Witness ==
    /\ lastCall.op \in {"getRecommendedUnits", "getTrashedUnits", "getFavoriteUnits"}
    /\ lastCall.ret # <<>>
    /\ KnownCollection(data, lastCall.arg.collectionId)
    /\ \A s \in Statuses :
            StatusPositions(CollectionOf(data, lastCall.arg.collectionId), s) # {}
    /\ ~KnownCollection(data, UnknownCollectionId)

(***************************************************************************)
(* Properties of the clipboard methods                                     *)
(***************************************************************************)
\* C23: pasteFromClipboard resolves with what importFromJSON returns for the
\* clipboard string; with an empty clipboard, a rejected read or a string the
\* import refuses it resolves with false and the structure is unchanged; it
\* never throws.  copyToClipboard returns false when the clipboard throws,
\* and never throws.
C23_ClipboardMethods ==
    [][/\ (lastCall'.op = "pasteFromClipboard" /\ nOps' # nOps) =>
            LET read == lastCall'.arg IN
            /\ lastCall'.ret \in {"true", "false"}
            /\ (read.resolved /\ read.text # EmptyText) =>
                    /\ lastCall'.ret = importFromJSON(data, read.text).ret
                    /\ data' = importFromJSON(data, read.text).data
            /\ (~read.resolved \/ read.text = EmptyText \/ InvalidImport(read.text)) =>
                    /\ lastCall'.ret = "false"
                    /\ data' = data
       /\ (lastCall'.op = "copyToClipboard" /\ nOps' # nOps) =>
            /\ lastCall'.ret \in {"true", "false"}
            /\ lastCall'.arg.setStringThrows => lastCall'.ret = "false"
            /\ data' = data]_vars

\* a paste whose read of the clipboard was rejected, on a structure with units
C23_Witness ==
    /\ lastCall.op = "pasteFromClipboard"
    /\ ~lastCall.arg.resolved
    /\ lastCall.ret = "false"
    /\ AllUnits(data) # {}

(***************************************************************************)
(* Structure preservation of the forward transform                         *)
(***************************************************************************)
\* the units of a level of the output are those of the legacy level, and each
\* carries the unit-feature rows with its unit id
SameUnits(level, oldLevel, rows) ==
    /\ Len(level.units) = Len(oldLevel.units)
    /\ \A k \in 1..Len(level.units) :
        LET unit == level.units[k]
            mine == SelectSeq(rows, LAMBDA uf : uf.unitId = unit.id)
        IN  /\ unit.id = oldLevel.units[k].id
            /\ unit.name = oldLevel.units[k].name
            /\ Len(unit.features) = Len(mine)
            /\ \A f \in 1..Len(mine) :
                /\ unit.features[f].featureId = mine[f].featureId
                /\ unit.features[f].value = mine[f].value

\* the levels of a collection of the output are the legacy levels with its id
SameLevels(collection, L) ==
    LET mine == SelectSeq(L.levels, LAMBDA lv : lv.collectionId = collection.id) IN
    /\ Len(collection.levels) = Len(mine)
    /\ \A j \in 1..Len(mine) :
        /\ collection.levels[j].id = mine[j].id
        /\ collection.levels[j].name = mine[j].name
        /\ SameUnits(collection.levels[j], mine[j], L.unitFeatures)

\* C24: the forward transform keeps the collections (ids, names, order), puts
\* under each exactly the legacy levels with its collectionId in legacy order,
\* keeps the units of each level (ids, names, order) whatever status lists
\* they are in, gives each unit exactly the unit-feature rows with its unitId,
\* and keys the root features by exactly the legacy feature ids, each without
\* a collectionId.
C24_StructurePreserved ==
    mpc # "start" =>
        /\ Len(unified.collections) = Len(legacy.collections)
        /\ \A i \in 1..Len(unified.collections) :
            /\ unified.collections[i].id = legacy.collections[i].id
            /\ unified.collections[i].name = legacy.collections[i].name
            /\ SameLevels(unified.collections[i], legacy)
        /\ ObjKeys(unified.features) = {legacy.features[i].id : i \in 1..Len(legacy.features)}
        /\ \A i \in 1..Len(unified.features) :
                "collectionId" \notin DOMAIN unified.features[i]

\* a transformed bundle with a level of two units, one of them in the trashed
\* list, a unit-feature row, a feature and a level of another collection
C24_Witness ==
    /\ mpc = "forward"
    /\ Len(legacy.collections) = 2
    /\ \E j \in 1..Len(unified.collections[1].levels) :
        LET level == unified.collections[1].levels[j] IN
        /\ Len(level.units) = 2
        /\ \E k \in 1..2 : level.units[k].status = "trash" /\ level.units[k].features # <<>>
    /\ unified.collections[2].levels # <<>>
    /\ unified.features # <<>>

(***************************************************************************)
(* Properties of findUnit                                                  *)
(***************************************************************************)
\* the path p comes before the path q in collection, level, unit order
PathBefore(p, q) ==
    \/ p[1] < q[1]
    \/ p[1] = q[1] /\ p[2] < q[2]
    \/ p[1] = q[1] /\ p[2] = q[2] /\ p[3] < q[3]

\* C25: findUnit returns null exactly when no unit has the id; otherwise it
\* returns the index path of the first unit with the id in collection, level,
\* unit order, and the unit at that path, which has the id.
C25_FindUnit ==
    \A unitId \in FindUnitIds :
        LET r == findUnit(data, unitId)
            hits == {p \in UnitPaths(data) : UnitAt(data, p).id = unitId}
        IN  /\ (r = Null) <=> (hits = {})
            /\ r # Null =>
                LET p == <<r.collectionIndex + 1, r.levelIndex + 1, r.unitIndex + 1>> IN
                /\ p \in hits
                /\ \A q \in hits : ~PathBefore(q, p)
                /\ r.unit = UnitAt(data, p)
                /\ r.unit.id = unitId

\* findUnit was called for an id that two units carry, and found
C25_Witness ==
    /\ lastCall.op = "findUnit"
    /\ lastCall.ret # Null
    /\ Cardinality({p \in UnitPaths(data) : UnitAt(data, p).id = lastCall.arg}) >= 2
    /\ findUnit(data, UnknownUnitId) = Null

(***************************************************************************)
(* Save followed by load                                                   *)
(***************************************************************************)
\* a load returns during which no request to the storage was rejected, right
\* after a save that returned
LoadAfterSave ==
    /\ gret.call = "save" /\ gret.outcome = "returned"
    /\ gret'.call = "load" /\ gret'.outcome = "returned"
    /\ ~glocal.readFailed
    /\ ~(gret'.path = "load_catch")
    /\ ~(gret'.path = "migrate_catch" /\ hist'.lastError = "rejected")

\* C26: when saveUnifiedData(D) has returned and the next call is
\* loadUnifiedData(), that load returns a structure equal to D, in every
\* state of the store the save was made in.
C26_SaveLoadRoundTrip ==
    [][LoadAfterSave => gret'.value = gret.value]_vars

(***************************************************************************)
(* SpecSessions: the hook instances of two screens over one store.  Each   *)
(* instance owns a UnifiedDataManager, loads the unified blob when it is   *)
(* mounted and saves the whole structure of its manager in updateData().   *)
(* The store has been migrated, so needsMigration() is false; the requests *)
(* to AsyncStorage are worked off in the order in which they were issued.  *)
(***************************************************************************)
\* number of setItem requests of all instances in a run
MaxRequests == 2

\* what the screens do to their manager before they call updateData()
HookMutations ==
    {[op |-> "addCollection", arg |-> Collection("c1", <<>>)],
     [op |-> "addFeature", arg |-> Feature("f1")]}
Mutated(d, m) ==
    IF m.op = "addCollection" THEN addCollection(d, m.arg) ELSE addFeature(d, m.arg)

\* strings handed to importJSON and found on the clipboard: not JSON, JSON of
\* the wrong shape, and an exported structure
HookJsonInputs ==
    {Garbage, JsonText(JsRoot(JsArray(<<>>), JsNull)), Stringify(SavedData)}
HookClipboardReads ==
    {ClipboardRead(FALSE, EmptyText), ClipboardRead(TRUE, EmptyText)}
        \cup {ClipboardRead(TRUE, text) : text \in HookJsonInputs}

InitSessions ==
    /\ sessions = [s \in SessionIds |-> Unmounted]
    /\ requests = <<>>
    /\ lastHook = NoHook
    /\ store = [marker |-> TrueText, unified |-> Stringify(SavedData), legacy |-> NoLegacyKeys]
    /\ gpc = "idle"
    /\ glocal = NoLocals
    /\ gret = NoReturn
    /\ hist = NoHistory
    /\ MigIdle
    /\ MgrIdle
    /\ OvIdle

\* the screen is mounted: useState(() => new UnifiedDataManager()), and the
\* effect calls loadData(), which runs up to the first await of needsMigration()
Mount(s) ==
    /\ sessions[s].load = "unmounted"
    /\ sessions' = [sessions EXCEPT ![s].load = "nm_flag"]
    /\ lastHook' = NoHook
    /\ UNCHANGED <<requests, migVars, mgrVars, gwVars, ovVars>>

\* needsMigration(): the read of the marker settles; the marker is set, and a
\* rejected read returns false as well
SessionReadFlag(s) ==
    /\ sessions[s].load = "nm_flag"
    /\ \E resolves \in BOOLEAN :
        sessions' = [sessions EXCEPT
            ![s].load = IF ~resolves \/ FlagSaysMigrated(store.marker)
                        THEN "load_read" ELSE "nm_legacy"]
    /\ lastHook' = NoHook
    /\ UNCHANGED <<requests, migVars, mgrVars, gwVars, ovVars>>

\* loadUnifiedData(): the read of the unified key settles; loadData() hands
\* the structure to dataManager.setData
SessionLoadRead(s) ==
    /\ sessions[s].load = "load_read"
    /\ \E resolves \in BOOLEAN :
        LET loadedData == IF resolves THEN LoadedFrom(store.unified) ELSE EmptyData IN
        sessions' = [sessions EXCEPT
            ![s].load = "done",
            ![s].data = loadedData,
            ![s].loaded = loadedData]
    /\ lastHook' = NoHook
    /\ UNCHANGED <<requests, migVars, mgrVars, gwVars, ovVars>>

\* every request issued so far has been worked off
AllWorkedOff == \A i \in 1..Len(requests) : requests[i].state # "queued"

\* updateData() -> saveData() -> saveUnifiedData(currentData) up to its await:
\* JSON.stringify(data) and the call of AsyncStorage.setItem
HookUpdateData(s, d, cause) ==
    /\ Len(requests) < MaxRequests
    /\ requests' = Append(requests,
            [session |-> s, jsonValue |-> Stringify(d), state |-> "queued",
             cause |-> cause, afterOthers |-> AllWorkedOff])

\* a handler of a screen: a mutator of the manager, then await updateData()
MutateAndUpdate(s) ==
    /\ sessions[s].load = "done"
    /\ \E m \in HookMutations :
        /\ sessions' = [sessions EXCEPT
                ![s].data = Mutated(@, m)]
        /\ lastHook' = NoHook
        /\ HookUpdateData(s, Mutated(sessions[s].data, m), m)
    /\ UNCHANGED <<migVars, mgrVars, gwVars, ovVars>>

\* variant: updateData() is called whatever the import returned
PersistAfterImport_Always(success) == TRUE

\* if (success) { await updateData(); }
PersistAfterImport(success) == success = "true"

\* importJSON(jsonString)
ImportJSON(s) ==
    /\ sessions[s].load = "done"
    /\ \E text \in HookJsonInputs :
        LET r == importFromJSON(sessions[s].data, text) IN
        /\ sessions' = [sessions EXCEPT ![s].data = r.data]
        /\ lastHook' = [op |-> "importJSON", session |-> s, success |-> r.ret]
        /\ IF PersistAfterImport(r.ret)
           THEN HookUpdateData(s, r.data, [op |-> "import"])
           ELSE UNCHANGED requests
    /\ UNCHANGED <<migVars, mgrVars, gwVars, ovVars>>

\* importData(), taken when the read of the clipboard settles
ImportData(s) ==
    /\ sessions[s].load = "done"
    /\ \E read \in HookClipboardReads :
        LET r == pasteFromClipboard(sessions[s].data, read) IN
        /\ sessions' = [sessions EXCEPT ![s].data = r.data]
        /\ lastHook' = [op |-> "importData", session |-> s, success |-> r.ret]
        /\ IF PersistAfterImport(r.ret)
           THEN HookUpdateData(s, r.data, [op |-> "import"])
           ELSE UNCHANGED requests
    /\ UNCHANGED <<migVars, mgrVars, gwVars, ovVars>>

\* the oldest request still queued
OldestQueued == CHOOSE i \in 1..Len(requests) :
                    /\ requests[i].state = "queued"
                    /\ \A j \in 1..(i - 1) : requests[j].state # "queued"

\* the store works off a request and the updateData() that issued it settles:
\* it returns after the write, or throws when the write is rejected
SessionStorageWrite ==
    /\ ~AllWorkedOff
    /\ \E resolves \in BOOLEAN :
        IF resolves
        THEN /\ store' = [store EXCEPT !.unified = requests[OldestQueued].jsonValue]
             /\ requests' = [requests EXCEPT ![OldestQueued].state = "returned"]
        ELSE /\ requests' = [requests EXCEPT ![OldestQueued].state = "threw"]
             /\ UNCHANGED store
    /\ lastHook' = NoHook
    /\ UNCHANGED <<sessions, gpc, glocal, gret, hist, migVars, mgrVars, ovVars>>

NextSessions ==
    \/ \E s \in SessionIds : Mount(s)
    \/ \E s \in SessionIds : SessionReadFlag(s)
    \/ \E s \in SessionIds : SessionLoadRead(s)
    \/ \E s \in SessionIds : MutateAndUpdate(s)
    \/ \E s \in SessionIds : ImportJSON(s)
    \/ \E s \in SessionIds : ImportData(s)
    \/ SessionStorageWrite

SpecSessions == InitSessions /\ [][NextSessions]_vars

\* the structure the unified key holds
PersistedData == LoadedFrom(store.unified)

\* the structure d shows the mutation m
Shows(d, m) ==
    IF m.op = "addCollection"
    THEN \E i \in 1..Len(d.collections) : d.collections[i] = m.arg
    ELSE \E i \in 1..Len(d.features) : d.features[i] = m.arg

\* two instances loaded the same blob; a mutated and its updateData()
\* returned; after that b applied another mutation and its updateData()
\* returned; nothing else was written
UpdatedInTurn(a, b) ==
    /\ a # b
    /\ sessions[a].loaded # Null /\ sessions[a].loaded = sessions[b].loaded
    /\ Len(requests) = 2
    /\ requests[1].session = a /\ requests[1].state = "returned"
    /\ requests[2].session = b /\ requests[2].state = "returned"
    /\ requests[2].afterOthers
    /\ requests[1].cause \in HookMutations /\ requests[2].cause \in HookMutations
    /\ requests[1].cause # requests[2].cause

\* C27: when two instances have loaded the same blob and update one after
\* the other, each with its own mutation, the persisted blob shows both
\* mutations.
C27_NoLostUpdate ==
    \A a, b \in SessionIds :
        UpdatedInTurn(a, b) =>
            /\ Shows(PersistedData, requests[1].cause)
            /\ Shows(PersistedData, requests[2].cause)


\* C28: importJSON and importData hand the structure to the Gateway's save
\* only when the manager's import returned true; after an import that
\* returned false the structure of the manager, the requests to the store and
\* the store itself are as before the call.
C28_ImportPersistsOnSuccess ==
    [][/\ (lastHook'.op \in {"importJSON", "importData"} /\ lastHook'.success = "false") =>
            /\ sessions' = sessions
            /\ requests' = requests
            /\ store' = store
       /\ (Len(requests') > Len(requests) /\ requests'[Len(requests')].cause.op = "import") =>
            /\ lastHook'.op \in {"importJSON", "importData"}
            /\ lastHook'.success = "true"
            /\ requests'[Len(requests')].session = lastHook'.session
      ]_vars

\* an import from the clipboard failed in an instance whose manager holds
\* collections, after a save had been issued
C28_Witness ==
    /\ lastHook.op = "importData"
    /\ lastHook.success = "false"
    /\ sessions[lastHook.session].data.collections # <<>>
    /\ requests # <<>>

(***************************************************************************)
(* SpecImported: the manager after importFromJSON has accepted a value.    *)
(* The shape predicate looks at the root only, so an element of            *)
(* collections may be null or an object without levels, and a level may be *)
(* null or an object without units.  The methods are taken with what they  *)
(* do on such elements: each gives the structure after the call and        *)
(* whether a TypeError left the method.                                    *)
(***************************************************************************)
\* a value that passes if (value) and is not undefined
Truthy(value) == value # NoObject /\ value # JsNull

Outcome(d, threw) == [data |-> d, threw |-> threw]

\* getLevels: collection?.levels || []
getLevelsOnAny(d, collectionIndex) ==
    LET collection == getCollection(d, collectionIndex) IN
    IF Truthy(collection) /\ ~Lacks(collection, "levels") THEN collection.levels ELSE <<>>

\* getLevel: collection && levelIndex >= 0 && levelIndex < collection.levels.length
getLevelOnAny(d, collectionIndex, levelIndex) ==
    LET collection == getCollection(d, collectionIndex) IN
    IF ~Truthy(collection) \/ levelIndex < 0 THEN NoObject
    ELSE IF Lacks(collection, "levels") THEN Thrown
    ELSE IF levelIndex < Len(collection.levels) THEN collection.levels[levelIndex + 1]
    ELSE NoObject

\* getUnits: level?.units || [], and whether getLevel threw
getUnitsOnAny(d, collectionIndex, levelIndex) ==
    LET level == getLevelOnAny(d, collectionIndex, levelIndex) IN
    IF level = Thrown THEN [value |-> <<>>, threw |-> TRUE]
    ELSE IF Truthy(level) /\ ~Lacks(level, "units") THEN [value |-> level.units, threw |-> FALSE]
    ELSE [value |-> <<>>, threw |-> FALSE]

\* addLevel: if (collection) collection.levels.push(level)
addLevelOnAny(d, collectionIndex, level) ==
    LET collection == getCollection(d, collectionIndex) IN
    IF ~Truthy(collection) THEN Outcome(d, FALSE)
    ELSE IF Lacks(collection, "levels") THEN Outcome(d, TRUE)
    ELSE Outcome(addLevel(d, collectionIndex, level), FALSE)

\* removeLevel: collection && levelIndex >= 0 && levelIndex < collection.levels.length
removeLevelOnAny(d, collectionIndex, levelIndex) ==
    LET collection == getCollection(d, collectionIndex) IN
    IF ~Truthy(collection) \/ levelIndex < 0 THEN Outcome(d, FALSE)
    ELSE IF Lacks(collection, "levels") THEN Outcome(d, TRUE)
    ELSE Outcome(removeLevel(d, collectionIndex, levelIndex), FALSE)

\* addUnit: if (level) level.units.push(unit)
addUnitOnAny(d, collectionIndex, levelIndex, unit) ==
    LET level == getLevelOnAny(d, collectionIndex, levelIndex) IN
    IF level = Thrown THEN Outcome(d, TRUE)
    ELSE IF ~Truthy(level) THEN Outcome(d, FALSE)
    ELSE IF Lacks(level, "units") THEN Outcome(d, TRUE)
    ELSE Outcome(addUnit(d, collectionIndex, levelIndex, unit), FALSE)

\* the least index of s at which Bad holds; Len(s) + 1 when there is none
FirstLacking(s, name) ==
    LET bad == {i \in 1..Len(s) : Lacks(s[i], name)}
    IN  IF bad = {} THEN Len(s) + 1 ELSE CHOOSE i \in bad : \A j \in bad : i <= j

StripLevel(level, featureId) ==
    [level EXCEPT !.units = [k \in 1..Len(level.units) |-> StripFeature(level.units[k], featureId)]]

\* the inner forEach over collection.levels, which stops where level.units
\* is read from a level that has none
StripLevelsUpTo(levels, featureId) ==
    [j \in 1..Len(levels) |->
        IF j < FirstLacking(levels, "units") THEN StripLevel(levels[j], featureId)
        ELSE levels[j]]

\* removeFeature: the forEach loops run until collection.levels or
\* level.units is read from an element that has none; the delete of the
\* feature entry is reached only when no loop threw
removeFeatureOnAny(d, featureId) ==
    LET Stops(c) == Lacks(c, "levels") \/ FirstLacking(c.levels, "units") <= Len(c.levels)
        stops == {i \in 1..Len(d.collections) : Stops(d.collections[i])}
        first == IF stops = {} THEN Len(d.collections) + 1
                 ELSE CHOOSE i \in stops : \A j \in stops : i <= j
    IN  IF stops = {} THEN Outcome(removeFeature(d, featureId), FALSE)
        ELSE Outcome(
                [d EXCEPT !.collections =
                    [i \in 1..Len(d.collections) |->
                        IF i > first \/ Lacks(d.collections[i], "levels") THEN d.collections[i]
                        ELSE [d.collections[i] EXCEPT
                                !.levels = StripLevelsUpTo(@, featureId)]]],
                TRUE)

\* values the shape predicate accepts: collections is an array, features a
\* non-null object; the elements of collections are not looked at
AcceptedJsonInputs ==
    {Stringify(PopulatedData),
     JsonText(JsRoot(JsArray(<<JsNull>>), JsObject(<<>>))),
     JsonText(JsRoot(JsArray(<<[id |-> "c1", name |-> NameOf("c1")]>>), JsObject(<<>>))),
     JsonText(JsRoot(JsArray(<<[id |-> "c1", name |-> NameOf("c1"), createdAt |-> 1,
                                levels |-> <<JsNull>>]>>), JsObject(<<>>))),
     JsonText(JsRoot(JsArray(<<StringifyCollection(PopulatedData.collections[1]),
                               [id |-> "c2", name |-> NameOf("c2"), createdAt |-> 1,
                                levels |-> <<[id |-> "l1", name |-> NameOf("l1")]>>]>>),
                     JsObject(<<Feature("f1"), Feature("f2")>>)))}

InitImported ==
    /\ data = EmptyData
    /\ lastCall = NoCall
    /\ nOps = 0
    /\ MigIdle
    /\ GwIdle
    /\ OvIdle
    /\ SesIdle

ImportAccepted ==
    /\ Called
    /\ \E text \in AcceptedJsonInputs :
        /\ data' = importFromJSON(data, text).data
        /\ lastCall' = Call("importFromJSON", text, FALSE, FALSE,
                            [value |-> importFromJSON(data, text).ret, threw |-> FALSE])
    /\ UNCHANGED <<migVars, gwVars, ovVars, sesVars>>

FindUnitOnImported ==
    /\ Called
    /\ \E unitId \in FindUnitIds :
        /\ data' = data
        /\ lastCall' = Call("findUnit", unitId, FALSE, FALSE,
                            [value |-> findUnit(data, unitId),
                             threw |-> findUnit(data, unitId) = Thrown])
    /\ UNCHANGED <<migVars, gwVars, ovVars, sesVars>>

RemoveFeatureOnImported ==
    /\ Called
    /\ \E featureId \in FeatureIds :
        /\ data' = removeFeatureOnAny(data, featureId).data
        /\ lastCall' = Call("removeFeature", featureId, FALSE, FALSE,
                            [value |-> "void",
                             threw |-> removeFeatureOnAny(data, featureId).threw])
    /\ UNCHANGED <<migVars, gwVars, ovVars, sesVars>>

GetLevelsOnImported ==
    /\ Called
    /\ \E ci \in Indices(data.collections) :
        /\ data' = data
        /\ lastCall' = Call("getLevels", <<ci>>, FALSE, FALSE,
                            [value |-> getLevelsOnAny(data, ci), threw |-> FALSE])
    /\ UNCHANGED <<migVars, gwVars, ovVars, sesVars>>

GetUnitsOnImported ==
    /\ Called
    /\ \E ci \in Indices(data.collections), li \in 0..1 :
        /\ data' = data
        /\ lastCall' = Call("getUnits", <<ci, li>>, FALSE, FALSE,
                            getUnitsOnAny(data, ci, li))
    /\ UNCHANGED <<migVars, gwVars, ovVars, sesVars>>

\* the index-based mutators, by addLevel, removeLevel and addUnit
MutateOnImported ==
    /\ Called
    /\ \E ci \in Indices(data.collections), li \in 0..1,
          op \in {"addLevel", "removeLevel", "addUnit"} :
        LET r == CASE op = "addLevel" -> addLevelOnAny(data, ci, Level("l1", <<>>))
                   [] op = "removeLevel" -> removeLevelOnAny(data, ci, li)
                   [] op = "addUnit" -> addUnitOnAny(data, ci, li, FavoriteUnitInput)
        IN  /\ data' = r.data
            /\ lastCall' = Call(op, <<ci, li>>, FALSE, FALSE,
                                [value |-> "void", threw |-> r.threw])
    /\ UNCHANGED <<migVars, gwVars, ovVars, sesVars>>

NextImported ==
    \/ ImportAccepted
    \/ FindUnitOnImported \/ RemoveFeatureOnImported
    \/ GetLevelsOnImported \/ GetUnitsOnImported
    \/ MutateOnImported

SpecImported == InitImported /\ [][NextImported]_vars

\* C29: after importFromJSON has returned true for a value that passes the
\* shape predicate, findUnit, removeFeature, getLevels, getUnits and the
\* index-based mutators return without throwing.
C29_SafeAfterImport ==
    [][(lastCall'.op # "importFromJSON" /\ nOps' # nOps) => ~lastCall'.ret.threw]_vars

(***************************************************************************)
(* The legacy keys under the gateway                                       *)
(***************************************************************************)
\* C30: no step of needsMigration(), migrate(), loadUnifiedData() or
\* saveUnifiedData() changes the value under any of the seven legacy keys,
\* whether migrate() returns the transformed structure or ends in its catch
\* block; the steps that write change the unified key or the marker only.
C30_LegacyUntouched ==
    [][/\ store'.legacy = store.legacy
       /\ store' # store => \/ store' = [store EXCEPT !.unified = store'.unified]
                            \/ store' = [store EXCEPT !.marker = store'.marker]]_vars

\* a store with legacy data on which one migrate() ended in its catch block,
\* a later one completed, and a save replaced the migrated blob
C30_Witness ==
    /\ HasLegacyData
    /\ hist.lastError # "none"
    /\ store.marker = TrueText
    /\ hist.lastWriter = "save"

====
